---------------------------- MODULE Spec2Model ----------------------------
(***************************************************************************)
(* frakti: the adapter between the kubelet runtime API (pod sandboxes,     *)
(* containers, images) and the hyperd daemon (the provider).               *)
(*                                                                         *)
(* The adapter keeps no state of its own: the state is the provider's      *)
(* (pods, containers, images) and, for each request in flight, the         *)
(* position of its handler, its locals and the provider calls it issued.   *)
(* Every provider call is one step; the handler code between two provider  *)
(* calls runs within the step of the call before it.                       *)
(*                                                                         *)
(* Strings the code takes apart (container names, timestamps) are          *)
(* sequences of one-character strings.  An optional (pointer) field is     *)
(* <<>> when nil and <<v>> when set.  A Go map is a function; a nil map    *)
(* is an optional one.                                                     *)
(***************************************************************************)
EXTENDS Integers, Sequences, FiniteSets, TLC

VARIABLES pods, containers, images, req

vars == <<pods, containers, images, req>>

-----------------------------------------------------------------------------
(* Bounds of the model *)

\* number of pod ids the provider can hand out
MaxPods == 2
\* number of container ids the provider can hand out
MaxContainers == 2

PodIds == 1..MaxPods
ContainerIds == 1..MaxContainers

-----------------------------------------------------------------------------
(* Optional values and maps *)

None == <<>>
Some(v) == <<v>>
IsSet(o) == Len(o) > 0
Get(o) == o[1]

EmptyMap == [k \in {} |-> ""]

\* strings.TrimPrefix(s, "/")
TrimPrefix(s) == IF Len(s) >= 1 /\ s[1] = "/" THEN Tail(s) ELSE s

\* inMapRange, had it passed over the keys that dest does not have
inMapRangePresent(in, dest, keys) ==
    \A k \in keys : k \notin DOMAIN dest \/ dest[k] = in[k]

RECURSIVE inMapRange(_, _, _)
\* the loop of inMap over the keys of in that are still to come: false at
\* the first key that dest does not have or has with another value
inMapRange(in, dest, keys) ==
    IF keys = {} THEN TRUE
    ELSE LET k == CHOOSE x \in keys : TRUE
         IN  IF k \in DOMAIN dest
             THEN IF dest[k] # in[k] THEN FALSE
                  ELSE inMapRange(in, dest, keys \ {k})
             ELSE FALSE

\* inMap checks if a map is in dest map
inMap(in, dest) == inMapRange(in, dest, DOMAIN in)

\* MergeLabelsRange, had it left alone the keys the labels already have
MergeLabelsRangeKeeping(labels, annotations, keys) ==
    [x \in DOMAIN labels \cup keys |->
        IF x \in DOMAIN labels THEN labels[x] ELSE annotations[x]]

RECURSIVE MergeLabelsRange(_, _, _)
\* for k, v := range config.Annotations { spec.Labels[k] = v }, over the
\* keys of the annotations that are still to come
MergeLabelsRange(labels, annotations, keys) ==
    IF keys = {} THEN labels
    ELSE LET k == CHOOSE x \in keys : TRUE
         IN  MergeLabelsRange([x \in DOMAIN labels \cup {k} |->
                                  IF x = k THEN annotations[k] ELSE labels[x]],
                              annotations, keys \ {k})

\* Pass annotations in labels: the labels, an empty map when they are nil,
\* with every annotation put into them
MergeLabels(labels, annotations) ==
    MergeLabelsRange(IF IsSet(labels) THEN Get(labels) ELSE EmptyMap,
                     annotations, DOMAIN annotations)

-----------------------------------------------------------------------------
(* Timestamps: parseTimeString *)

Digits == {"0", "1", "2", "3", "4", "5", "6", "7", "8", "9"}
DigitVal(c) ==
    CASE c = "0" -> 0 [] c = "1" -> 1 [] c = "2" -> 2 [] c = "3" -> 3
      [] c = "4" -> 4 [] c = "5" -> 5 [] c = "6" -> 6 [] c = "7" -> 7
      [] c = "8" -> 8 [] c = "9" -> 9

IsDigitAt(s, i) == i >= 1 /\ i <= Len(s) /\ s[i] \in Digits
IsCharAt(s, i, c) == i >= 1 /\ i <= Len(s) /\ s[i] = c

RECURSIVE Atoi(_, _, _)
\* the number written by the n digits of s that start at position i
Atoi(s, i, n) ==
    IF n = 0 THEN 0 ELSE Atoi(s, i, n - 1) * 10 + DigitVal(s[i + n - 1])

AllDigits(s, i, n) == \A j \in i..(i + n - 1) : IsDigitAt(s, j)

RECURSIVE FractionEnd(_, _)
\* the first position at or after i that holds no digit
FractionEnd(s, i) == IF IsDigitAt(s, i) THEN FractionEnd(s, i + 1) ELSE i

IsLeap(y) == y % 4 = 0 /\ (y % 100 # 0 \/ y % 400 = 0)
DaysIn(m, y) ==
    IF m = 2 THEN (IF IsLeap(y) THEN 29 ELSE 28)
    ELSE IF m \in {4, 6, 9, 11} THEN 30 ELSE 31

\* days from 1970-01-01 to the (proleptic Gregorian) date y-m-d
DaysFromCivil(y, m, d) ==
    LET yy  == IF m <= 2 THEN y - 1 ELSE y
        era == yy \div 400
        yoe == yy - era * 400
        mp  == IF m > 2 THEN m - 3 ELSE m + 9
        doy == (153 * mp + 2) \div 5 + d - 1
        doe == yoe * 365 + yoe \div 4 - yoe \div 100 + doy
    IN  era * 146097 + doe - 719468

\* A Unix time (int64 seconds) is kept as whole days since 1970-01-01 and the
\* seconds within the day: the value is days * 86400 + secs.
Unix(days, secs) == [days |-> days, secs |-> secs]

\* time.Date(0, 0, 0, 0, 0, 0, 0, time.Local).Unix(): month 0 and day 0
\* normalise to the day before the first of December of the year -1.
\* time.Local is taken to be UTC.
ZeroTimeUnix == Unix(DaysFromCivil(0 - 1, 12, 1) - 1, 0)

\* time.Parse("2006-01-02T15:04:05Z", s): a four-digit year, two-digit month
\* and day, an hour of one or two digits, two-digit minute and second, an
\* optional fraction of a second, the letter Z and nothing after it; the
\* time is read as UTC.  A failed parse yields the zero Time, whose Unix()
\* is that of 0001-01-01.
TimeParse(s) ==
    LET hl == IF IsDigitAt(s, 13) THEN 2 ELSE 1
        q  == 12 + hl
        e  == IF IsCharAt(s, q + 6, ".") /\ IsDigitAt(s, q + 7)
              THEN FractionEnd(s, q + 7) ELSE q + 6
        shape ==
            /\ AllDigits(s, 1, 4) /\ IsCharAt(s, 5, "-")
            /\ AllDigits(s, 6, 2) /\ IsCharAt(s, 8, "-")
            /\ AllDigits(s, 9, 2) /\ IsCharAt(s, 11, "T")
            /\ AllDigits(s, 12, hl) /\ IsCharAt(s, q, ":")
            /\ AllDigits(s, q + 1, 2) /\ IsCharAt(s, q + 3, ":")
            /\ AllDigits(s, q + 4, 2)
            /\ IsCharAt(s, e, "Z") /\ Len(s) = e
        year == Atoi(s, 1, 4)
        mon  == Atoi(s, 6, 2)
        day  == Atoi(s, 9, 2)
        hour == Atoi(s, 12, hl)
        min  == Atoi(s, q + 1, 2)
        sec  == Atoi(s, q + 4, 2)
        inRange ==
            /\ mon >= 1 /\ mon <= 12
            /\ day >= 1 /\ day <= DaysIn(mon, year)
            /\ hour < 24 /\ min < 60 /\ sec < 60
    IN  IF shape /\ inRange
        THEN [ok |-> TRUE,
              unix |-> Unix(DaysFromCivil(year, mon, day),
                            hour * 3600 + min * 60 + sec)]
        ELSE [ok |-> FALSE, unix |-> Unix(DaysFromCivil(1, 1, 1), 0)]

\* the *time.ParseError of time.Parse
ErrParsingTime == "parsing time"

\* parseTimeString, had it let a string pass that time.Parse turns down
parseTimeStringIgnoring(str) ==
    IF str = <<>>
    THEN [unix |-> ZeroTimeUnix, err |-> ""]
    ELSE [unix |-> TimeParse(str).unix, err |-> ""]

\* parseTimeString(str) (int64, error): err is "" for nil
parseTimeString(str) ==
    IF str = <<>>
    THEN [unix |-> ZeroTimeUnix, err |-> ""]
    ELSE LET t == TimeParse(str)
         IN  IF ~t.ok
             THEN [unix |-> t.unix, err |-> ErrParsingTime]
             ELSE [unix |-> t.unix, err |-> ""]

\* what the provider may report as a timestamp
TsEmpty == <<>>
TsGood == <<"2","0","1","6","-","0","8","-","0","1","T","1","0",":","3","0",":","0","0","Z">>
TsBad == <<"2","0","1","6","-","0","8","-","0","1"," ","1","0",":","3","0",":","0","0">>
TsFrac == <<"2","0","1","6","-","0","8","-","0","1","T","1","0",":","3","0",":","0","0",".","5","Z">>
TimeStrings == {TsEmpty, TsGood, TsBad, TsFrac}

-----------------------------------------------------------------------------
(* Status mapping *)

\* toKubeContainerState, had it taken the phases whatever their case is
toKubeContainerStateAnyCase(state) ==
    CASE state \in {"running", "Running", "RUNNING"} -> "RUNNING"
      [] state \in {"pending", "Pending"} -> "CREATED"
      [] state \in {"failed", "Failed", "succeeded", "Succeeded"} -> "EXITED"
      [] OTHER -> "UNKNOWN"

toPodSandboxState(state) ==
    IF state = "running" \/ state = "Running" THEN "READY" ELSE "NOTREADY"

toKubeContainerState(state) ==
    CASE state = "running" -> "RUNNING"
      [] state = "pending" -> "CREATED"
      [] state \in {"failed", "succeeded"} -> "EXITED"
      [] OTHER -> "UNKNOWN"

-----------------------------------------------------------------------------
(* Image references *)

Contains(s, c) == \E i \in 1..Len(s) : s[i] = c
\* strings.Index / strings.LastIndex, 1-based; 0 when c is not in s
Index(s, c) ==
    IF Contains(s, c) THEN CHOOSE i \in 1..Len(s) :
        s[i] = c /\ \A j \in 1..(i - 1) : s[j] # c
    ELSE 0
LastIndex(s, c) ==
    IF Contains(s, c) THEN CHOOSE i \in 1..Len(s) :
        s[i] = c /\ \A j \in (i + 1)..Len(s) : s[j] # c
    ELSE 0

Latest == <<"l", "a", "t", "e", "s", "t">>

\* parseRepositoryTag, had it looked for the first ":" and not for the last
parseRepositoryTagFirstColon(repos) ==
    IF Index(repos, "@") > 0
    THEN LET n    == Index(repos, "@")
             rest == SubSeq(repos, n + 1, Len(repos))
             m    == Index(rest, "@")
         IN  <<SubSeq(repos, 1, n - 1),
               IF m > 0 THEN SubSeq(rest, 1, m - 1) ELSE rest>>
    ELSE LET n   == Index(repos, ":")
             tag == SubSeq(repos, n + 1, Len(repos))
         IN  IF n = 0 THEN <<repos, Latest>>
             ELSE IF ~Contains(tag, "/") THEN <<SubSeq(repos, 1, n - 1), tag>>
             ELSE <<repos, Latest>>

\* parseRepositoryTag, had it split at the first "@" only
parseRepositoryTagSplitOnce(repos) ==
    IF Index(repos, "@") > 0
    THEN LET n == Index(repos, "@")
         IN  <<SubSeq(repos, 1, n - 1), SubSeq(repos, n + 1, Len(repos))>>
    ELSE LET n   == LastIndex(repos, ":")
             tag == SubSeq(repos, n + 1, Len(repos))
         IN  IF n = 0 THEN <<repos, Latest>>
             ELSE IF ~Contains(tag, "/") THEN <<SubSeq(repos, 1, n - 1), tag>>
             ELSE <<repos, Latest>>

\* parseRepositoryTag(repos): <<reposName, tag | digest>>
parseRepositoryTag(repos) ==
    IF Index(repos, "@") > 0
    THEN \* parts := strings.Split(repos, "@"); parts[0], parts[1]
         LET n    == Index(repos, "@")
             rest == SubSeq(repos, n + 1, Len(repos))
             m    == Index(rest, "@")
         IN  <<SubSeq(repos, 1, n - 1),
               IF m > 0 THEN SubSeq(rest, 1, m - 1) ELSE rest>>
    ELSE LET n   == LastIndex(repos, ":")
             tag == SubSeq(repos, n + 1, Len(repos))
         IN  IF n = 0 THEN <<repos, Latest>>
             ELSE IF ~Contains(tag, "/") THEN <<SubSeq(repos, 1, n - 1), tag>>
             ELSE <<repos, Latest>>

AuthFields == {"Username", "Password", "Auth", "RegistryToken", "ServerAddress"}
EmptyAuthConfig == [f \in AuthFields |-> ""]

\* getHyperAuthConfig of package hyper: an empty config for a nil auth
getHyperAuthConfigHyper(auth) ==
    IF ~IsSet(auth) THEN Some(EmptyAuthConfig)
    ELSE Some([f \in AuthFields |->
                 IF IsSet(Get(auth)[f]) THEN Get(Get(auth)[f]) ELSE ""])

\* getHyperAuthConfig of package manager: nil for a nil auth
getHyperAuthConfigManager(auth) ==
    IF ~IsSet(auth) THEN None
    ELSE Some([f \in AuthFields |->
                 IF IsSet(Get(auth)[f]) THEN Get(Get(auth)[f]) ELSE ""])

-----------------------------------------------------------------------------
(* Resources *)

defaultCPUNumber == 1
defaultMemoryinMegabytes == 128

\* A Go int (64 bits) that is not negative is kept in two digits of base
\* 65536: its value is hi * 65536 + lo.
GoInt(n) == [hi |-> n \div 65536, lo |-> n % 65536]

\* int32(v): the low 32 bits of v, in two's complement
Int32(v) ==
    LET h == v.hi % 65536
    IN  IF h >= 32768 THEN (h - 65536) * 65536 + v.lo ELSE h * 65536 + v.lo

\* A limit (float64) is kept as its sign, its whole part hi * 65536 + lo and
\* the rest: a CPU limit counts cores and the rest is in thousandths of a
\* core; a memory limit counts mebibytes and the rest is in bytes.
LimitIsPositive(limit) ==
    ~limit.neg /\ (limit.hi > 0 \/ limit.lo > 0 \/ limit.rest > 0)

\* vcpu: int(limit + 0.5) of a positive limit, 1 for 0; the default otherwise
Vcpu(resources) ==
    IF IsSet(resources) /\ IsSet(Get(resources).Cpu)
       /\ LimitIsPositive(Get(Get(resources).Cpu))
    THEN LET limit == Get(Get(resources).Cpu)
             lo    == limit.lo + (IF limit.rest >= 500 THEN 1 ELSE 0)
             vcpu  == IF lo = 65536 THEN [hi |-> limit.hi + 1, lo |-> 0]
                      ELSE [hi |-> limit.hi, lo |-> lo]
         IN  IF vcpu = GoInt(0) THEN GoInt(1) ELSE vcpu
    ELSE GoInt(defaultCPUNumber)

\* memory: int(limit / 1024 / 1024) of a positive limit, which is its whole
\* mebibytes; the default otherwise
MemoryMB(resources) ==
    IF IsSet(resources) /\ IsSet(Get(resources).Memory)
       /\ LimitIsPositive(Get(Get(resources).Memory))
    THEN LET limit == Get(Get(resources).Memory)
         IN  [hi |-> limit.hi, lo |-> limit.lo]
    ELSE GoInt(defaultMemoryinMegabytes)

-----------------------------------------------------------------------------
(* Requests the kubelet may send *)

Map1(k, v) == [x \in {k} |-> v]

DigitChar == <<"1", "2", "3", "4", "5", "6", "7", "8", "9">>

\* the name of the i-th pod and of the i-th container the kubelet asks for
PodNameOf(i) == <<"p", DigitChar[i]>>
ContainerNameOf(i) == <<"c", DigitChar[i]>>

\* a limit of the given whole part and rest
Limit(neg, hi, lo, rest) == [neg |-> neg, hi |-> hi, lo |-> lo, rest |-> rest]

\* *PodSandboxResources: none; no limits; 0.4 cores and 300 MiB; 2.6 cores
\* and a byte less than 301 MiB; limits of zero; limits below zero; 2.5
\* cores and one byte; 65535.5 cores and 1 MiB; half a core less than 2^31
\* cores and 2^31 MiB; 2^32 cores and 5 MiB more than 2^32 MiB
ResourceSamples ==
    << None,
       Some([Cpu |-> None, Memory |-> None]),
       Some([Cpu |-> Some(Limit(FALSE, 0, 0, 400)),
             Memory |-> Some(Limit(FALSE, 0, 300, 0))]),
       Some([Cpu |-> Some(Limit(FALSE, 0, 2, 600)),
             Memory |-> Some(Limit(FALSE, 0, 300, 1048575))]),
       Some([Cpu |-> Some(Limit(FALSE, 0, 0, 0)),
             Memory |-> Some(Limit(FALSE, 0, 0, 0))]),
       Some([Cpu |-> Some(Limit(TRUE, 0, 1, 500)),
             Memory |-> Some(Limit(TRUE, 0, 0, 1))]),
       Some([Cpu |-> Some(Limit(FALSE, 0, 2, 500)),
             Memory |-> Some(Limit(FALSE, 0, 0, 1))]),
       Some([Cpu |-> Some(Limit(FALSE, 0, 65535, 500)),
             Memory |-> Some(Limit(FALSE, 0, 1, 0))]),
       Some([Cpu |-> Some(Limit(FALSE, 32767, 65535, 500)),
             Memory |-> Some(Limit(FALSE, 32768, 0, 0))]),
       Some([Cpu |-> Some(Limit(FALSE, 65536, 0, 0)),
             Memory |-> Some(Limit(FALSE, 65536, 5, 0))]) >>

\* PodSandboxConfig: labels, and annotations of which one has the key of a
\* label, for the odd pods; annotations alone and resource limits for the
\* even ones
PodSandboxConfig(i) ==
    IF i % 2 = 1
    THEN [Name |-> PodNameOf(i), Hostname |-> "h",
          Labels |-> Some(Map1("tier", "fe") @@ Map1("env", "dev")),
          Annotations |-> Map1("env", "prod") @@ Map1("note", "n"),
          DnsOptions |-> None, Resources |-> None]
    ELSE [Name |-> PodNameOf(i), Hostname |-> "h",
          Labels |-> None, Annotations |-> Map1("tier", "be"),
          DnsOptions |-> Some([Servers |-> <<"8.8.8.8">>]),
          Resources |-> ResourceSamples[4]]

\* the first pod is also asked for with each of the resources
PodSandboxConfigs ==
    { PodSandboxConfig(i) : i \in PodIds }
    \cup { [PodSandboxConfig(1) EXCEPT !.Resources = ResourceSamples[i]] :
             i \in 1..Len(ResourceSamples) }

\* ContainerConfig
ContainerConfig(i) ==
    IF i % 2 = 1
    THEN [Name |-> ContainerNameOf(i), Image |-> "busybox",
          WorkingDir |-> "/", Tty |-> FALSE,
          Args |-> <<"-c">>, Command |-> <<"sh">>,
          Envs |-> <<[Key |-> "K", Value |-> "V"]>>,
          Labels |-> Some(Map1("app", "web") @@ Map1("env", "dev")),
          Annotations |-> Map1("env", "prod") @@ Map1("note", "n"),
          Privileged |-> FALSE]
    ELSE [Name |-> ContainerNameOf(i), Image |-> "busybox",
          WorkingDir |-> "", Tty |-> TRUE,
          Args |-> <<>>, Command |-> <<>>, Envs |-> <<>>,
          Labels |-> None, Annotations |-> Map1("app", "db"),
          Privileged |-> FALSE]

ContainerConfigs ==
    { ContainerConfig(i) : i \in ContainerIds }
    \cup { [ContainerConfig(1) EXCEPT !.Privileged = TRUE] }

NoPodFilter ==
    [Name |-> None, Id |-> None, State |-> None, LabelSelector |-> None]

\* *PodSandboxFilter: nil, or a filter whose fields are each nil or set
PodSandboxFilters ==
    { None,
      Some(NoPodFilter),
      Some([NoPodFilter EXCEPT !.Name = Some(PodNameOf(1))]),
      Some([NoPodFilter EXCEPT !.Id = Some(1)]),
      Some([NoPodFilter EXCEPT !.State = Some("READY")]),
      Some([NoPodFilter EXCEPT !.LabelSelector = Some(EmptyMap)]),
      Some([NoPodFilter EXCEPT !.LabelSelector = Some(Map1("tier", "fe"))]),
      Some([NoPodFilter EXCEPT !.Name = Some(PodNameOf(2)),
                               !.State = Some("NOTREADY")]) }

NoContainerFilter ==
    [Name |-> None, Id |-> None, PodSandboxId |-> None, State |-> None,
     LabelSelector |-> None]

\* *ContainerFilter
ContainerFilters ==
    { None,
      Some(NoContainerFilter),
      Some([NoContainerFilter EXCEPT !.Name = Some(ContainerNameOf(1))]),
      Some([NoContainerFilter EXCEPT !.Id = Some(2)]),
      Some([NoContainerFilter EXCEPT !.PodSandboxId = Some(1)]),
      Some([NoContainerFilter EXCEPT !.State = Some("RUNNING")]),
      Some([NoContainerFilter EXCEPT !.LabelSelector = Some(Map1("app", "web"))]),
      Some([NoContainerFilter EXCEPT !.PodSandboxId = Some(1),
                                     !.State = Some("EXITED")]) }

\* image references
ImageRefs == { <<"a", ":", "1">> }

NoAuth == [f \in AuthFields |-> None]
\* *AuthConfig
AuthConfigs ==
    { None, Some([NoAuth EXCEPT !.Username = Some("u"), !.Password = Some("")]) }

\* *ImageFilter
ImageFilters ==
    { None, Some([Image |-> <<"a">>]) }
    \cup { Some([Image |-> i]) : i \in ImageRefs }

-----------------------------------------------------------------------------
(* The provider (hyperd), as the Client of package hyper reaches it.        *)
(* A call's outcome is its error ("" for none), its reply and the           *)
(* provider's state after it.  Any call may fail with "timeout" and leave   *)
(* the state as it was.                                                     *)

NoPod == [phase |-> "absent", name |-> <<>>, labels |-> EmptyMap]
NoContainer ==
    [pod |-> 0, name |-> <<>>, image |-> "", labels |-> EmptyMap,
     phase |-> "absent"]

PodExists(id) == id \in PodIds /\ pods[id].phase # "absent"
ContainerExists(id) == id \in ContainerIds /\ containers[id].pod # 0

Outcome(err, val, p, c, i) ==
    [err |-> err, val |-> val, pods |-> p, containers |-> c, images |-> i]
Reply(val) == Outcome("", val, pods, containers, images)
Failure(err) == Outcome(err, <<>>, pods, containers, images)
Timeout == Failure("timeout")

RECURSIVE Sorted(_)
\* the elements of the set S of numbers, in increasing order
Sorted(S) ==
    IF S = {} THEN <<>>
    ELSE LET m == CHOOSE x \in S : \A y \in S : x <= y
         IN  <<m>> \o Sorted(S \ {m})

\* PodCreate: the new pod's id, which the provider takes from the spec's Id;
\* two pods cannot have the same
PodCreate(spec) ==
    LET id == CHOOSE x \in PodIds : PodNameOf(x) = spec.Id
    IN  { Timeout,
          IF PodExists(id) THEN Failure("already exists")
          ELSE Outcome("", id,
                       [pods EXCEPT ![id] = [phase |-> "pending",
                                             name |-> spec.Id,
                                             labels |-> spec.Labels]],
                       containers, images) }

\* PodStart: the pod and its containers run
PodStart(podID) ==
    { Timeout,
      IF ~PodExists(podID) THEN Failure("not found")
      ELSE Outcome("", <<>>,
                   [pods EXCEPT ![podID].phase = "running"],
                   [c \in ContainerIds |->
                      IF containers[c].pod = podID
                      THEN [containers[c] EXCEPT !.phase = "running"]
                      ELSE containers[c]],
                   images) }

\* PodStop: the pod stops and with it its running containers
PodStop(podID) ==
    { Timeout,
      IF ~PodExists(podID) THEN Failure("not found")
      ELSE Outcome("", [Code |-> 0, Cause |-> ""],
                   [pods EXCEPT ![podID].phase = "failed"],
                   [c \in ContainerIds |->
                      IF containers[c].pod = podID
                         /\ containers[c].phase = "running"
                      THEN [containers[c] EXCEPT !.phase = "failed"]
                      ELSE containers[c]],
                   images) }

\* PodRemove: the pod goes and with it its containers
PodRemove(podID) ==
    { Timeout,
      IF ~PodExists(podID) THEN Failure("not found")
      ELSE Outcome("", <<>>,
                   [pods EXCEPT ![podID] = NoPod],
                   [c \in ContainerIds |->
                      IF containers[c].pod = podID THEN NoContainer
                      ELSE containers[c]],
                   images) }

PodInfoOf(id) ==
    [PodName |-> pods[id].name, CreatedAt |-> id,
     Spec |-> [Labels |-> pods[id].labels, Volumes |-> <<>>],
     Status |-> [Phase |-> pods[id].phase,
                 PodIP |-> IF pods[id].phase = "running"
                           THEN <<"10.0.0.1", "10.0.0.2">> ELSE <<>>]]

\* PodInfo
PodInfo(podID) ==
    { Timeout,
      IF ~PodExists(podID) THEN Failure("not found")
      ELSE Reply(PodInfoOf(podID)) }

PodListResult(id) ==
    [PodID |-> id, PodName |-> pods[id].name, Labels |-> pods[id].labels,
     Status |-> pods[id].phase, CreatedAt |-> id]

\* PodList
PodList ==
    { Timeout, LET ids == Sorted({id \in PodIds : PodExists(id)})
      IN  Reply([i \in 1..Len(ids) |-> PodListResult(ids[i])]) }

\* ContainerCreate: the new container's id, one for each container name;
\* two containers cannot have the same name.  The provider reports a
\* container's name with a leading "/".
ContainerCreate(podID, spec) ==
    LET id == CHOOSE x \in ContainerIds : ContainerNameOf(x) = spec.Name
    IN  { Timeout,
          IF ~PodExists(podID) THEN Failure("not found")
          ELSE IF ContainerExists(id) THEN Failure("already exists")
          ELSE Outcome("", id, pods,
                       [containers EXCEPT ![id] =
                           [pod |-> podID, name |-> <<"/">> \o spec.Name,
                            image |-> spec.Image, labels |-> spec.Labels,
                            phase |-> "pending"]],
                       images) }

ContainerInfoOf(id, started, finished) ==
    [PodID |-> containers[id].pod, CreatedAt |-> id,
     Container |-> [Name |-> containers[id].name, ContainerID |-> id,
                    Image |-> containers[id].image,
                    ImageID |-> containers[id].image,
                    Labels |-> containers[id].labels,
                    VolumeMounts |-> <<>>],
     Status |-> [Phase |-> containers[id].phase,
                 Waiting |-> [Reason |-> "waiting"],
                 Running |-> [StartedAt |-> started],
                 Terminated |-> [StartedAt |-> started,
                                 FinishedAt |-> finished,
                                 Reason |-> "terminated",
                                 ExitCode |-> 1]]]

\* ContainerInfo: the timestamps are whatever strings the provider writes
ContainerInfo(container) ==
    { Timeout } \cup
    IF ~ContainerExists(container) THEN { Failure("not found") }
    ELSE { Reply(ContainerInfoOf(container, s, f)) :
             s \in TimeStrings, f \in TimeStrings }

ContainerListResult(id) ==
    [ContainerID |-> id, ContainerName |-> containers[id].name,
     PodID |-> containers[id].pod, Status |-> containers[id].phase]

\* ContainerList
ContainerList(auxiliary) ==
    { Timeout,
      LET ids == Sorted({id \in ContainerIds : ContainerExists(id)})
      IN  Reply([i \in 1..Len(ids) |-> ContainerListResult(ids[i])]) }

ImageInfoOf(i) ==
    [Id |-> images[i], RepoTags |-> <<images[i]>>, RepoDigests |-> <<>>,
     VirtualSize |-> 1]

\* ImageList
ImageList == { Timeout, Reply([i \in 1..Len(images) |-> ImageInfoOf(i)]) }

HasImage(repoTag) == \E i \in 1..Len(images) : images[i] = repoTag

\* ImagePull: the image repo:tag is in the store afterwards
ImagePull(image, tag, auth) ==
    LET repoTag == image \o <<":">> \o tag
    IN  { Timeout,
          Outcome("", <<>>, pods, containers,
                  IF HasImage(repoTag) THEN images
                  ELSE Append(images, repoTag)) }

\* ImageRemove, by the image's repo:tag
ImageRemove(image) ==
    { Timeout,
      IF ~HasImage(image) THEN Failure("not found")
      ELSE Outcome("", <<>>, pods, containers,
                   SelectSeq(images, LAMBDA x : x # image)) }

\* Version
ProviderVersion ==
    { Timeout, Reply([Version |-> "0.6.0", ApiVersion |-> "1.0"]) }

-----------------------------------------------------------------------------
(* Requests in flight *)

\* The two entry surfaces: KubeHyperManager (the gRPC server of package
\* manager) and HyperRuntime (the direct calls of package hyper).  Their
\* handlers are the same code line for line, but for the shape of Version's
\* answer and for getHyperAuthConfig: the requests to these two say which
\* surface they came in by.
Surfaces == {"manager", "hyper"}

\* the requests that can be in flight
Requests == {"r1"}

Idle ==
    [op |-> "", in |-> <<>>, pc |-> "idle", loc |-> <<>>, calls |-> <<>>,
     perr |-> "", err |-> "", ret |-> <<>>]

\* a handler is entered with its request
New(op, in) == [Idle EXCEPT !.op = op, !.in = Some(in), !.pc = "run"]
\* the request a handler was entered with
In(rq) == Get(rq.in)

Free(r) == req[r].pc = "idle"
At(r, op, pc) == req[r].op = op /\ req[r].pc = pc

\* the handler issues the provider call m(a) ...
Call(rq, m, a) == [rq EXCEPT !.calls = Append(@, [m |-> m, a |-> a])]
\* ... and the call comes back: perr keeps the first error a provider call
\* of the request came back with
Observe(rq, out) == IF rq.perr = "" THEN [rq EXCEPT !.perr = out.err] ELSE rq
\* the handler returns
Return(rq, err, ret) ==
    [rq EXCEPT !.pc = "done", !.loc = <<>>, !.err = err, !.ret = ret]
\* the handler returns the value v and no error
ReturnValue(rq, v) == Return(rq, "", Some(v))
\* the response of an operation that has nothing to report
EmptyResponse == <<>>
\* the handler goes on to its next provider call
Goto(rq, pc, loc) == [rq EXCEPT !.pc = pc, !.loc = loc]

\* one step of request r: the provider is as the outcome leaves it
Step(r, rq, out) ==
    /\ pods' = out.pods
    /\ containers' = out.containers
    /\ images' = out.images
    /\ req' = [req EXCEPT ![r] = rq]

\* a step of request r that calls nothing
Local(r, rq) ==
    /\ req' = [req EXCEPT ![r] = rq]
    /\ UNCHANGED <<pods, containers, images>>

-----------------------------------------------------------------------------
(* Version *)

hyperRuntimeName == "hyper"
runtimeAPIVersion == "0.1.0"

VersionReturn(rq, out) ==
    IF out.err # "" THEN Return(rq, out.err, <<>>)
    ELSE IF In(rq) = "manager"
    THEN ReturnValue(rq, [Version |-> runtimeAPIVersion,
                         RuntimeName |-> hyperRuntimeName,
                         RuntimeVersion |-> out.val.Version,
                         RuntimeApiVersion |-> out.val.ApiVersion])
    ELSE ReturnValue(rq, <<hyperRuntimeName, out.val.Version,
                          out.val.ApiVersion>>)

\* Version, of either surface
Version(r) ==
    /\ Free(r)
    /\ \E surface \in Surfaces : \E out \in ProviderVersion :
         LET rq == Observe(Call(New("Version", surface), "Version", <<>>), out)
         IN  Step(r, VersionReturn(rq, out), out)

-----------------------------------------------------------------------------
(* Pod sandboxes *)

\* the types.UserPod that CreatePodSandbox builds
UserPod(config) ==
    [Id |-> config.Name, Hostname |-> config.Hostname,
     Labels |-> MergeLabels(config.Labels, config.Annotations),
     Dns |-> IF IsSet(config.DnsOptions)
             THEN Get(config.DnsOptions).Servers ELSE <<>>,
     Resource |-> [Vcpu |-> Int32(Vcpu(config.Resources)),
                   Memory |-> Int32(MemoryMB(config.Resources))]]

CreatePodSandboxCreated(rq, out) ==
    IF out.err # "" THEN Return(rq, out.err, <<>>)
    ELSE Goto(rq, "StartPod", [podID |-> out.val])

\* CreatePodSandboxStarted, had it answered with the id whatever StartPod said
CreatePodSandboxStartedAnyway(rq, out) == ReturnValue(rq, rq.loc.podID)

CreatePodSandboxStarted(rq, out) ==
    IF out.err # "" THEN Return(rq, out.err, <<>>)
    ELSE ReturnValue(rq, rq.loc.podID)

\* CreatePodSandbox, to its CreatePod call
CreatePodSandbox(r) ==
    /\ Free(r)
    /\ \E config \in PodSandboxConfigs :
         LET spec == UserPod(config)
         IN  \E out \in PodCreate(spec) :
               LET rq == Observe(Call(New("CreatePodSandbox", config),
                                      "CreatePod", spec), out)
               IN  Step(r, CreatePodSandboxCreated(rq, out), out)

\* CreatePodSandbox, its StartPod call
CreatePodSandboxStartPod(r) ==
    /\ At(r, "CreatePodSandbox", "StartPod")
    /\ \E out \in PodStart(req[r].loc.podID) :
         LET rq == Observe(Call(req[r], "StartPod", req[r].loc.podID), out)
         IN  Step(r, CreatePodSandboxStarted(rq, out), out)

StopPodSandboxReturn(rq, out) ==
    IF out.err # "" THEN Return(rq, out.err, <<>>)
    ELSE ReturnValue(rq, EmptyResponse)

StopPodSandbox(r) ==
    /\ Free(r)
    /\ \E id \in PodIds : \E out \in PodStop(id) :
         LET rq == Observe(Call(New("StopPodSandbox", id), "StopPod", id), out)
         IN  Step(r, StopPodSandboxReturn(rq, out), out)

DeletePodSandboxReturn(rq, out) ==
    IF out.err # "" THEN Return(rq, out.err, <<>>)
    ELSE ReturnValue(rq, EmptyResponse)

DeletePodSandbox(r) ==
    /\ Free(r)
    /\ \E id \in PodIds : \E out \in PodRemove(id) :
         LET rq == Observe(Call(New("DeletePodSandbox", id),
                                "RemovePod", id), out)
         IN  Step(r, DeletePodSandboxReturn(rq, out), out)

\* PodSandboxStatusReturn, had it taken the pod to be as CreatePodSandbox
\* left it, running, and not looked at the phase the provider reports
PodSandboxStatusReturnAsCreated(rq, out) ==
    IF out.err # "" THEN Return(rq, out.err, <<>>)
    ELSE LET info == out.val
         IN  ReturnValue(rq,
               [Id |-> In(rq), Name |-> info.PodName,
                State |-> "READY",
                Network |-> [Ip |-> IF Len(info.Status.PodIP) > 0
                                    THEN info.Status.PodIP[1] ELSE ""],
                CreatedAt |-> info.CreatedAt,
                Labels |-> info.Spec.Labels])

PodSandboxStatusReturn(rq, out) ==
    IF out.err # "" THEN Return(rq, out.err, <<>>)
    ELSE LET info == out.val
         IN  ReturnValue(rq,
               [Id |-> In(rq), Name |-> info.PodName,
                State |-> toPodSandboxState(info.Status.Phase),
                Network |-> [Ip |-> IF Len(info.Status.PodIP) > 0
                                    THEN info.Status.PodIP[1] ELSE ""],
                CreatedAt |-> info.CreatedAt,
                Labels |-> info.Spec.Labels])

PodSandboxStatus(r) ==
    /\ Free(r)
    /\ \E id \in PodIds : \E out \in PodInfo(id) :
         LET rq == Observe(Call(New("PodSandboxStatus", id),
                                "GetPodInfo", id), out)
         IN  Step(r, PodSandboxStatusReturn(rq, out), out)

\* PodMatches, had it compared the name without asking whether the filter
\* has one (GetName() of a filter without a name is the empty string)
PodMatchesGetName(filter, pod) ==
    LET state == toPodSandboxState(pod.Status)
    IN  IF ~IsSet(filter) THEN TRUE
        ELSE LET f == Get(filter)
                 name == IF IsSet(f.Name) THEN Get(f.Name) ELSE <<>>
             IN  /\ pod.PodName = name
                 /\ ~(IsSet(f.Id) /\ pod.PodID # Get(f.Id))
                 /\ ~(IsSet(f.State) /\ state # Get(f.State))
                 /\ ~(IsSet(f.LabelSelector)
                      /\ ~inMap(Get(f.LabelSelector), pod.Labels))

\* whether ListPodSandbox keeps the listed pod
PodMatches(filter, pod) ==
    LET state == toPodSandboxState(pod.Status)
    IN  IF ~IsSet(filter) THEN TRUE
        ELSE LET f == Get(filter)
             IN  /\ ~(IsSet(f.Name) /\ pod.PodName # Get(f.Name))
                 /\ ~(IsSet(f.Id) /\ pod.PodID # Get(f.Id))
                 /\ ~(IsSet(f.State) /\ state # Get(f.State))
                 /\ ~(IsSet(f.LabelSelector)
                      /\ ~inMap(Get(f.LabelSelector), pod.Labels))

PodSandboxListItem(pod) ==
    [Id |-> pod.PodID, Name |-> pod.PodName, Labels |-> pod.Labels,
     State |-> toPodSandboxState(pod.Status), CreatedAt |-> pod.CreatedAt]

RECURSIVE PodItems(_, _, _)
\* the loop of ListPodSandbox over pods[i..]
PodItems(filter, list, i) ==
    IF i > Len(list) THEN <<>>
    ELSE (IF PodMatches(filter, list[i])
          THEN <<PodSandboxListItem(list[i])>> ELSE <<>>)
         \o PodItems(filter, list, i + 1)

ListPodSandboxReturn(rq, out) ==
    IF out.err # "" THEN Return(rq, out.err, <<>>)
    ELSE ReturnValue(rq, PodItems(In(rq), out.val, 1))

ListPodSandbox(r) ==
    /\ Free(r)
    /\ \E filter \in PodSandboxFilters : \E out \in PodList :
         LET rq == Observe(Call(New("ListPodSandbox", filter),
                                "GetPodList", <<>>), out)
         IN  Step(r, ListPodSandboxReturn(rq, out), out)

-----------------------------------------------------------------------------
(* Containers *)

ErrPrivileged == "Priviledged containers are not supported in hyper"
ErrNotImplemented == "Not implemented"

\* the types.UserContainer that CreateContainer builds
UserContainer(config) ==
    [Name |-> config.Name, Image |-> config.Image,
     Workdir |-> config.WorkingDir, Tty |-> config.Tty,
     Command |-> config.Args, Entrypoint |-> config.Command,
     Envs |-> [i \in 1..Len(config.Envs) |->
                 [Env |-> config.Envs[i].Key, Value |-> config.Envs[i].Value]],
     Labels |-> MergeLabels(config.Labels, config.Annotations)]

CreateContainerReturn(rq, out) ==
    IF out.err # "" THEN Return(rq, out.err, <<>>)
    ELSE ReturnValue(rq, out.val)

\* CreateContainerRejects, had the check of Privileged been left out
CreateContainerRejectsNothing(config) == FALSE

\* whether CreateContainer turns the config down before it calls anything
CreateContainerRejects(config) == config.Privileged

CreateContainerRejected(r) ==
    /\ Free(r)
    /\ \E podID \in PodIds : \E config \in ContainerConfigs :
         /\ CreateContainerRejects(config)
         /\ Local(r, Return(New("CreateContainer",
                                [PodSandboxId |-> podID, Config |-> config]),
                            ErrPrivileged, <<>>))

CreateContainer(r) ==
    /\ Free(r)
    /\ \E podID \in PodIds : \E config \in ContainerConfigs :
         /\ ~CreateContainerRejects(config)
         /\ LET spec == UserContainer(config)
            IN  \E out \in ContainerCreate(podID, spec) :
                  LET rq == Observe(
                              Call(New("CreateContainer",
                                       [PodSandboxId |-> podID,
                                        Config |-> config]),
                                   "CreateContainer", <<podID, spec>>), out)
                  IN  Step(r, CreateContainerReturn(rq, out), out)

\* StartContainerInfo, had it started the pod without stopping it first
StartContainerInfoNoStop(rq, out) ==
    IF out.err # "" THEN Return(rq, out.err, <<>>)
    ELSE Goto(rq, "StartPod", [podID |-> out.val.PodID])

\* Client.StartContainer: the container's pod is stopped and started again
StartContainerInfo(rq, out) ==
    IF out.err # "" THEN Return(rq, out.err, <<>>)
    ELSE Goto(rq, "StopPod", [podID |-> out.val.PodID])

\* StartContainerStopped, had it gone on after a failed StopPod
StartContainerStoppedAnyway(rq, out) == Goto(rq, "StartPod", rq.loc)

StartContainerStopped(rq, out) ==
    IF out.err # "" THEN Return(rq, out.err, <<>>)
    ELSE Goto(rq, "StartPod", rq.loc)

\* StartContainerStarted, had it passed over the error of StartPod
StartContainerStartedAnyway(rq, out) == ReturnValue(rq, EmptyResponse)

StartContainerStarted(rq, out) ==
    IF out.err # "" THEN Return(rq, out.err, <<>>)
    ELSE ReturnValue(rq, EmptyResponse)

\* StartContainer, to its GetContainerInfo call
StartContainer(r) ==
    /\ Free(r)
    /\ \E id \in ContainerIds : \E out \in ContainerInfo(id) :
         LET rq == Observe(Call(New("StartContainer", id),
                                "GetContainerInfo", id), out)
         IN  Step(r, StartContainerInfo(rq, out), out)

\* StartContainer, its StopPod call
StartContainerStopPod(r) ==
    /\ At(r, "StartContainer", "StopPod")
    /\ \E out \in PodStop(req[r].loc.podID) :
         LET rq == Observe(Call(req[r], "StopPod", req[r].loc.podID), out)
         IN  Step(r, StartContainerStopped(rq, out), out)

\* StartContainer, its StartPod call
\* StartContainerStartPod, had it looked whether the pod is still there and
\* returned without a call when it is not
StartContainerStartPodIfThere(r) ==
    /\ At(r, "StartContainer", "StartPod")
    /\ IF PodExists(req[r].loc.podID)
       THEN \E out \in PodStart(req[r].loc.podID) :
              LET rq == Observe(Call(req[r], "StartPod", req[r].loc.podID), out)
              IN  Step(r, StartContainerStarted(rq, out), out)
       ELSE Local(r, ReturnValue(req[r], EmptyResponse))

StartContainerStartPod(r) ==
    /\ At(r, "StartContainer", "StartPod")
    /\ \E out \in PodStart(req[r].loc.podID) :
         LET rq == Observe(Call(req[r], "StartPod", req[r].loc.podID), out)
         IN  Step(r, StartContainerStarted(rq, out), out)

\* grace periods of StopContainer
Timeouts == {0, 30}

\* StopContainerReturn, had it turned down a container that does not run
StopContainerReturnRunningOnly(rq) ==
    IF containers[In(rq).ContainerId].phase = "running"
    THEN ReturnValue(rq, EmptyResponse)
    ELSE Return(rq, "container is not running", <<>>)

\* Client.StopContainer returns nil
StopContainerReturn(rq) == ReturnValue(rq, EmptyResponse)

StopContainer(r) ==
    /\ Free(r)
    /\ \E id \in ContainerIds : \E timeout \in Timeouts :
         Local(r, StopContainerReturn(
                    New("StopContainer",
                        [ContainerId |-> id, Timeout |-> timeout])))

\* RemoveContainerReturn, had it asked the provider to remove the container
RemoveContainerReturnCalls(rq) ==
    ReturnValue(Call(rq, "RemoveContainer", In(rq)), EmptyResponse)

\* Client.RemoveContainer returns nil
RemoveContainerReturn(rq) == ReturnValue(rq, EmptyResponse)

RemoveContainer(r) ==
    /\ Free(r)
    /\ \E id \in ContainerIds :
         Local(r, RemoveContainerReturn(New("RemoveContainer", id)))

\* Exec, had it looked the container up and answered without an error
ExecLooking(r) ==
    /\ Free(r)
    /\ \E id \in ContainerIds :
         \E out \in ContainerInfo(id) :
           Step(r, ReturnValue(Observe(Call(New("Exec", [ContainerId |-> id]),
                                            "GetContainerInfo", id), out),
                               EmptyResponse), out)

\* Exec, of a command in any container
Exec(r) ==
    /\ Free(r)
    /\ \E id \in ContainerIds :
         Local(r, Return(New("Exec", [ContainerId |-> id]),
                         ErrNotImplemented, <<>>))

\* the checks of ListContainers before the container's info is asked for
ContainerListed(filter, c) ==
    LET containerName == TrimPrefix(c.ContainerName)
    IN  IF ~IsSet(filter) THEN TRUE
        ELSE LET f == Get(filter)
             IN  /\ ~(IsSet(f.Name) /\ containerName # Get(f.Name))
                 /\ ~(IsSet(f.Id) /\ c.ContainerID # Get(f.Id))
                 /\ ~(IsSet(f.PodSandboxId) /\ c.PodID # Get(f.PodSandboxId))

\* the checks of ListContainers on the container's info
ContainerKept(filter, info) ==
    LET state == toKubeContainerState(info.Status.Phase)
    IN  IF ~IsSet(filter) THEN TRUE
        ELSE LET f == Get(filter)
             IN  /\ ~(IsSet(f.State) /\ state # Get(f.State))
                 /\ ~(IsSet(f.LabelSelector)
                      /\ ~inMap(Get(f.LabelSelector), info.Container.Labels))

KubeContainer(c, info) ==
    [Id |-> c.ContainerID, Name |-> TrimPrefix(c.ContainerName),
     Image |-> info.Container.Image, ImageRef |-> info.Container.ImageID,
     Labels |-> info.Container.Labels,
     State |-> toKubeContainerState(info.Status.Phase)]

\* NextListed, had the loop asked for the info of every listed container
NextListedEach(filter, list, i) == i

RECURSIVE NextListed(_, _, _)
\* the first position from i on whose container passes the first checks,
\* Len(list) + 1 when there is none
NextListed(filter, list, i) ==
    IF i > Len(list) \/ ContainerListed(filter, list[i]) THEN i
    ELSE NextListed(filter, list, i + 1)

\* the loop of ListContainers, up to its next GetContainerInfo call
ListContainersLoop(rq, list, i, acc) ==
    LET n == NextListed(In(rq), list, i)
    IN  IF n > Len(list) THEN ReturnValue(rq, acc)
        ELSE Goto(rq, "GetContainerInfo",
                  [list |-> list, i |-> n, containers |-> acc])

ListContainersListed(rq, out) ==
    IF out.err # "" THEN Return(rq, out.err, <<>>)
    ELSE ListContainersLoop(rq, out.val, 1, <<>>)

\* ListContainersLooked, had it left out the container whose lookup failed
ListContainersLookedSkipping(rq, out) ==
    LET l == rq.loc
    IN  IF out.err # ""
        THEN ListContainersLoop(rq, l.list, l.i + 1, l.containers)
        ELSE ListContainersLoop(rq, l.list, l.i + 1,
                 IF ContainerKept(In(rq), out.val)
                 THEN Append(l.containers, KubeContainer(l.list[l.i], out.val))
                 ELSE l.containers)

ListContainersLooked(rq, out) ==
    IF out.err # "" THEN Return(rq, out.err, <<>>)
    ELSE LET l == rq.loc
             c == l.list[l.i]
         IN  ListContainersLoop(rq, l.list, l.i + 1,
                 IF ContainerKept(In(rq), out.val)
                 THEN Append(l.containers, KubeContainer(c, out.val))
                 ELSE l.containers)

\* ListContainers, to its GetContainerList call
ListContainers(r) ==
    /\ Free(r)
    /\ \E filter \in ContainerFilters : \E out \in ContainerList(FALSE) :
         LET rq == Observe(Call(New("ListContainers", filter),
                                "GetContainerList", FALSE), out)
         IN  Step(r, ListContainersListed(rq, out), out)

\* ListContainers, the GetContainerInfo call of its loop
ListContainersGetContainerInfo(r) ==
    /\ At(r, "ListContainers", "GetContainerInfo")
    /\ LET id == req[r].loc.list[req[r].loc.i].ContainerID
       IN  \E out \in ContainerInfo(id) :
             LET rq == Observe(Call(req[r], "GetContainerInfo", id), out)
             IN  Step(r, ListContainersLooked(rq, out), out)

\* the mounts of ContainerStatus: the host path is the source of the pod's
\* volume of the same name (the last one, when several have it)
Mounts(volumeMounts, volumes) ==
    [idx \in 1..Len(volumeMounts) |->
       LET mnt == volumeMounts[idx]
           vs  == {i \in 1..Len(volumes) : volumes[i].Name = mnt.Name}
       IN  [Name |-> mnt.Name, ContainerPath |-> mnt.MountPath,
            Readonly |-> mnt.ReadOnly,
            HostPath |-> IF vs = {} THEN None
                         ELSE Some(volumes[CHOOSE i \in vs :
                                             \A j \in vs : j <= i].Source)]]

\* KubeContainerStatus, had its switch had no case for "succeeded": a
\* container that succeeded is then taken to be waiting
KubeContainerStatusFailedOnly(rq, status, podInfo) ==
    LET base ==
          [Id |-> status.Container.ContainerID,
           Image |-> status.Container.Image,
           ImageRef |-> status.Container.ImageID,
           Name |-> TrimPrefix(status.Container.Name),
           State |-> toKubeContainerState(status.Status.Phase),
           Labels |-> status.Container.Labels,
           CreatedAt |-> status.CreatedAt,
           Mounts |-> Mounts(status.Container.VolumeMounts,
                             podInfo.Spec.Volumes),
           StartedAt |-> None, FinishedAt |-> None,
           Reason |-> None, ExitCode |-> None]
        phase == status.Status.Phase
        term == status.Status.Terminated
        startedAt == parseTimeString(IF phase = "running"
                                     THEN status.Status.Running.StartedAt
                                     ELSE term.StartedAt)
        finishedAt == parseTimeString(term.FinishedAt)
    IN  IF phase # "running" /\ phase # "failed"
        THEN ReturnValue(rq,
               [base EXCEPT !.Reason = Some(status.Status.Waiting.Reason)])
        ELSE IF startedAt.err # "" THEN Return(rq, startedAt.err, <<>>)
        ELSE IF phase = "running"
        THEN ReturnValue(rq, [base EXCEPT !.StartedAt = Some(startedAt.unix)])
        ELSE IF finishedAt.err # "" THEN Return(rq, finishedAt.err, <<>>)
        ELSE ReturnValue(rq,
               [base EXCEPT !.StartedAt = Some(startedAt.unix),
                            !.FinishedAt = Some(finishedAt.unix),
                            !.Reason = Some(term.Reason),
                            !.ExitCode = Some(term.ExitCode)])

\* the status ContainerStatus builds from the container's and the pod's info
KubeContainerStatus(rq, status, podInfo) ==
    LET base ==
          [Id |-> status.Container.ContainerID,
           Image |-> status.Container.Image,
           ImageRef |-> status.Container.ImageID,
           Name |-> TrimPrefix(status.Container.Name),
           State |-> toKubeContainerState(status.Status.Phase),
           Labels |-> status.Container.Labels,
           CreatedAt |-> status.CreatedAt,
           Mounts |-> Mounts(status.Container.VolumeMounts,
                             podInfo.Spec.Volumes),
           StartedAt |-> None, FinishedAt |-> None,
           Reason |-> None, ExitCode |-> None]
        phase == status.Status.Phase
    IN  IF phase = "running"
        THEN LET startedAt == parseTimeString(status.Status.Running.StartedAt)
             IN  IF startedAt.err # "" THEN Return(rq, startedAt.err, <<>>)
                 ELSE ReturnValue(rq,
                        [base EXCEPT !.StartedAt = Some(startedAt.unix)])
        ELSE IF phase \in {"failed", "succeeded"}
        THEN LET term == status.Status.Terminated
                 startedAt == parseTimeString(term.StartedAt)
                 finishedAt == parseTimeString(term.FinishedAt)
             IN  IF startedAt.err # "" THEN Return(rq, startedAt.err, <<>>)
                 ELSE IF finishedAt.err # ""
                 THEN Return(rq, finishedAt.err, <<>>)
                 ELSE ReturnValue(rq,
                        [base EXCEPT !.StartedAt = Some(startedAt.unix),
                                     !.FinishedAt = Some(finishedAt.unix),
                                     !.Reason = Some(term.Reason),
                                     !.ExitCode = Some(term.ExitCode)])
        ELSE ReturnValue(rq,
               [base EXCEPT !.Reason = Some(status.Status.Waiting.Reason)])

\* ContainerStatusInfo, had it parsed the timestamp of a running container
\* before it asked for the pod's info
ContainerStatusInfoParsing(rq, out) ==
    IF out.err # "" THEN Return(rq, out.err, <<>>)
    ELSE LET startedAt == parseTimeString(out.val.Status.Running.StartedAt)
         IN  IF out.val.Status.Phase = "running" /\ startedAt.err # ""
             THEN Return(rq, startedAt.err, <<>>)
             ELSE Goto(rq, "GetPodInfo", [status |-> out.val])

ContainerStatusInfo(rq, out) ==
    IF out.err # "" THEN Return(rq, out.err, <<>>)
    ELSE Goto(rq, "GetPodInfo", [status |-> out.val])

ContainerStatusPodInfo(rq, out) ==
    IF out.err # "" THEN Return(rq, out.err, <<>>)
    ELSE KubeContainerStatus(rq, rq.loc.status, out.val)

\* ContainerStatus, to its GetContainerInfo call
ContainerStatus(r) ==
    /\ Free(r)
    /\ \E id \in ContainerIds : \E out \in ContainerInfo(id) :
         LET rq == Observe(Call(New("ContainerStatus", id),
                                "GetContainerInfo", id), out)
         IN  Step(r, ContainerStatusInfo(rq, out), out)

\* ContainerStatus, its GetPodInfo call
ContainerStatusGetPodInfo(r) ==
    /\ At(r, "ContainerStatus", "GetPodInfo")
    /\ LET podID == req[r].loc.status.PodID
       IN  \E out \in PodInfo(podID) :
             LET rq == Observe(Call(req[r], "GetPodInfo", podID), out)
             IN  Step(r, ContainerStatusPodInfo(rq, out), out)

-----------------------------------------------------------------------------
(* Images *)

\* whether s is one of the strings of list
inList(s, list) == \E i \in 1..Len(list) : list[i] = s

\* ImageMatches, had it taken a name for untagged as parseRepositoryTag
\* does: a ":" of a registry port is then no tag
ImageMatchesUntagged(filter, img) ==
    IF ~IsSet(filter) THEN TRUE
    ELSE LET name == Get(filter).Image
             f    == IF ~Contains(name, "@")
                        /\ parseRepositoryTag(name) = <<name, Latest>>
                     THEN name \o <<":">> \o Latest ELSE name
         IN  inList(f, img.RepoTags)

\* whether ListImages keeps the image
ImageMatches(filter, img) ==
    IF ~IsSet(filter) THEN TRUE
    ELSE LET name == Get(filter).Image
             f    == IF ~Contains(name, ":")
                     THEN name \o <<":">> \o Latest ELSE name
         IN  inList(f, img.RepoTags)

KubeImage(img) ==
    [Id |-> img.Id, RepoTags |-> img.RepoTags,
     RepoDigests |-> img.RepoDigests, Size |-> img.VirtualSize]

RECURSIVE ImageResults(_, _, _)
\* the loop of ListImages over images[i..]
ImageResults(filter, list, i) ==
    IF i > Len(list) THEN <<>>
    ELSE (IF ImageMatches(filter, list[i])
          THEN <<KubeImage(list[i])>> ELSE <<>>)
         \o ImageResults(filter, list, i + 1)

ListImagesReturn(rq, out) ==
    IF out.err # "" THEN Return(rq, out.err, <<>>)
    ELSE ReturnValue(rq, ImageResults(In(rq), out.val, 1))

ListImages(r) ==
    /\ Free(r)
    /\ \E filter \in ImageFilters : \E out \in ImageList :
         LET rq == Observe(Call(New("ListImages", filter),
                                "GetImageList", <<>>), out)
         IN  Step(r, ListImagesReturn(rq, out), out)

\* ImageStatus, of any image
ImageStatus(r) ==
    /\ Free(r)
    /\ \E image \in ImageRefs :
         Local(r, Return(New("ImageStatus", [Image |-> image]),
                         ErrNotImplemented, <<>>))

\* getHyperAuthConfig, of the surface the request came in by
getHyperAuthConfig(surface, auth) ==
    IF surface = "manager" THEN getHyperAuthConfigManager(auth)
    ELSE getHyperAuthConfigHyper(auth)

PullImageReturn(rq, out) ==
    IF out.err # "" THEN Return(rq, out.err, <<>>)
    ELSE ReturnValue(rq, EmptyResponse)

PullImage(r) ==
    /\ Free(r)
    /\ \E surface \in Surfaces, image \in ImageRefs, authConfig \in AuthConfigs :
         LET parsed == parseRepositoryTag(image)
             repo == parsed[1]
             tag  == parsed[2]
             auth == getHyperAuthConfig(surface, authConfig)
         IN  \E out \in ImagePull(repo, tag, auth) :
               LET rq == Observe(
                           Call(New("PullImage",
                                    [Surface |-> surface, Image |-> image,
                                     Auth |-> authConfig]),
                                "PullImage", <<repo, tag, auth>>), out)
               IN  Step(r, PullImageReturn(rq, out), out)

RemoveImageReturn(rq, out) ==
    IF out.err # "" THEN Return(rq, out.err, <<>>)
    ELSE ReturnValue(rq, EmptyResponse)

RemoveImage(r) ==
    /\ Free(r)
    /\ \E image \in ImageRefs :
         \E out \in ImageRemove(image) :
           LET rq == Observe(Call(New("RemoveImage", image),
                                  "RemoveImage", image), out)
           IN  Step(r, RemoveImageReturn(rq, out), out)

-----------------------------------------------------------------------------
(* The caller *)

\* the caller takes the handler's answer; the request's slot is free again
Respond(r) ==
    /\ req[r].pc = "done"
    /\ req' = [req EXCEPT ![r] = Idle]
    /\ UNCHANGED <<pods, containers, images>>

-----------------------------------------------------------------------------
(* The specification *)

\* NewKubeHyperManager / NewHyperRuntime: a client of the provider and
\* nothing else.  The provider holds nothing yet.
Init ==
    /\ pods = [id \in PodIds |-> NoPod]
    /\ containers = [id \in ContainerIds |-> NoContainer]
    /\ images = <<>>
    /\ req = [r \in Requests |-> Idle]

Next ==
    \/ \E r \in DOMAIN req : Version(r)
    \/ \E r \in DOMAIN req : CreatePodSandbox(r)
    \/ \E r \in DOMAIN req : CreatePodSandboxStartPod(r)
    \/ \E r \in DOMAIN req : StopPodSandbox(r)
    \/ \E r \in DOMAIN req : DeletePodSandbox(r)
    \/ \E r \in DOMAIN req : PodSandboxStatus(r)
    \/ \E r \in DOMAIN req : ListPodSandbox(r)
    \/ \E r \in DOMAIN req : CreateContainerRejected(r)
    \/ \E r \in DOMAIN req : CreateContainer(r)
    \/ \E r \in DOMAIN req : StartContainer(r)
    \/ \E r \in DOMAIN req : StartContainerStopPod(r)
    \/ \E r \in DOMAIN req : StartContainerStartPod(r)
    \/ \E r \in DOMAIN req : StopContainer(r)
    \/ \E r \in DOMAIN req : RemoveContainer(r)
    \/ \E r \in DOMAIN req : ListContainers(r)
    \/ \E r \in DOMAIN req : ListContainersGetContainerInfo(r)
    \/ \E r \in DOMAIN req : ContainerStatus(r)
    \/ \E r \in DOMAIN req : ContainerStatusGetPodInfo(r)
    \/ \E r \in DOMAIN req : Exec(r)
    \/ \E r \in DOMAIN req : ListImages(r)
    \/ \E r \in DOMAIN req : ImageStatus(r)
    \/ \E r \in DOMAIN req : PullImage(r)
    \/ \E r \in DOMAIN req : RemoveImage(r)
    \/ \E r \in DOMAIN req : Respond(r)

Spec == Init /\ [][Next]_vars

-----------------------------------------------------------------------------
(* The helpers of the handlers, each called on its own: a call is a request  *)
(* whose input is the helper's arguments and whose answer is its result.     *)

\* map[string]string: the maps from some of the keys a, b to x and y
LabelMaps == UNION { [K -> {"x", "y"}] : K \in SUBSET {"a", "b"} }

\* strings a phase may be
PhaseStrings ==
    { "running", "Running", "RUNNING", "pending", "Pending", "failed",
      "Failed", "succeeded", "Succeeded", "unknown", "stopped", "" }

\* the longest image reference that parseRepositoryTag is given
MaxRefLen == 5

\* image references: every string of a letter, ":", "/" and "@"
RefStrings == UNION { [1..n -> {"a", ":", "/", "@"}] : n \in 0..MaxRefLen }

CallInMap(r) ==
    /\ At(r, "inMap", "run")
    /\ Local(r, ReturnValue(req[r], inMap(In(req[r]).in, In(req[r]).dest)))

CallToPodSandboxState(r) ==
    /\ At(r, "toPodSandboxState", "run")
    /\ Local(r, ReturnValue(req[r], toPodSandboxState(In(req[r]))))

CallToKubeContainerState(r) ==
    /\ At(r, "toKubeContainerState", "run")
    /\ Local(r, ReturnValue(req[r], toKubeContainerState(In(req[r]))))

CallParseRepositoryTag(r) ==
    /\ At(r, "parseRepositoryTag", "run")
    /\ Local(r, ReturnValue(req[r], parseRepositoryTag(In(req[r]))))

\* ContainerStatus, from the two replies on: the provider reports any phase
CallKubeContainerStatus(r) ==
    /\ At(r, "KubeContainerStatus", "run")
    /\ Local(r, KubeContainerStatus(req[r], In(req[r]).status,
                                    In(req[r]).podInfo))

\* the loop of ListImages over a listing of the provider
CallImageResults(r) ==
    /\ At(r, "ImageResults", "run")
    /\ Local(r, ReturnValue(req[r], ImageResults(In(req[r]).filter,
                                                 In(req[r]).images, 1)))

InitHelpers ==
    /\ pods = [id \in PodIds |-> NoPod]
    /\ containers = [id \in ContainerIds |-> NoContainer]
    /\ images = <<>>
    /\ \/ req \in [Requests ->
                    { New("inMap", [in |-> in, dest |-> dest]) :
                        in \in LabelMaps, dest \in LabelMaps }]
       \/ req \in [Requests ->
                    { New("toPodSandboxState", state) :
                        state \in PhaseStrings }]
       \/ req \in [Requests ->
                    { New("toKubeContainerState", state) :
                        state \in PhaseStrings }]
       \/ req \in [Requests ->
                    { New("parseRepositoryTag", repos) :
                        repos \in RefStrings }]
       \/ req \in [Requests ->
                    { New("KubeContainerStatus",
                          [status |-> [ContainerInfoOf(1, started, finished)
                                         EXCEPT !.Status.Phase = phase],
                           podInfo |-> PodInfoOf(1)]) :
                        phase \in PhaseStrings,
                        started \in TimeStrings, finished \in TimeStrings }]
       \/ LET a    == <<"a">>
              a1   == <<"a", ":", "1">>
              al   == a \o <<":">> \o Latest
              port == <<"h", ":", "5", "/", "a">>
              tags == { <<>>, <<a1>>, <<al>>, <<a1, al>>, <<port>>,
                        <<port \o <<":">> \o Latest>> }
              imgs == { [Id |-> t, RepoTags |-> t, RepoDigests |-> <<>>,
                         VirtualSize |-> Len(t)] : t \in tags }
          IN  req \in [Requests ->
                { New("ImageResults", [filter |-> filter, images |-> list]) :
                    filter \in { None } \cup
                       { Some([Image |-> n]) : n \in {<<>>, a, a1, al, port} },
                    list \in UNION { [1..n -> imgs] : n \in 0..2 } }]

NextHelpers ==
    \/ \E r \in DOMAIN req : CallInMap(r)
    \/ \E r \in DOMAIN req : CallToPodSandboxState(r)
    \/ \E r \in DOMAIN req : CallToKubeContainerState(r)
    \/ \E r \in DOMAIN req : CallParseRepositoryTag(r)
    \/ \E r \in DOMAIN req : CallKubeContainerStatus(r)
    \/ \E r \in DOMAIN req : CallImageResults(r)

SpecHelpers == InitHelpers /\ [][NextHelpers]_vars

-----------------------------------------------------------------------------
(* Requests that run at the same time *)

\* the server runs each request's handler on its own: two of them at once
ConcurrentRequests == {"r1", "r2"}

InitConcurrent ==
    /\ pods = [id \in PodIds |-> NoPod]
    /\ containers = [id \in ContainerIds |-> NoContainer]
    /\ images = <<>>
    /\ req = [r \in ConcurrentRequests |-> Idle]

\* the requests that make, restart and remove pods
NextConcurrent ==
    \/ \E r \in DOMAIN req : CreatePodSandbox(r)
    \/ \E r \in DOMAIN req : CreatePodSandboxStartPod(r)
    \/ \E r \in DOMAIN req : CreateContainer(r)
    \/ \E r \in DOMAIN req : StartContainer(r)
    \/ \E r \in DOMAIN req : StartContainerStopPod(r)
    \/ \E r \in DOMAIN req : StartContainerStartPod(r)
    \/ \E r \in DOMAIN req : DeletePodSandbox(r)
    \/ \E r \in DOMAIN req : Respond(r)

SpecConcurrent == InitConcurrent /\ [][NextConcurrent]_vars

-----------------------------------------------------------------------------
(* Properties *)

Done(r, op) == req[r].op = op /\ req[r].pc = "done"
\* the step in which request r comes in as operation op
Begins(r, op) == req[r].pc = "idle" /\ req'[r].op = op

\* C1: StartContainer(c) issues GetContainerInfo(c), StopPod(p) and
\* StartPod(p) in this order, p the pod the provider reports for c, and
\* nothing else: the calls issued so far are always a prefix of these
\* three and, when every call succeeded, all three were issued; no call
\* is a per-container start.
StartContainerRestartsPod ==
    \A r \in DOMAIN req :
      req[r].op = "StartContainer" =>
        LET c == In(req[r])
            p == containers[c].pod
            cycle == << [m |-> "GetContainerInfo", a |-> c],
                        [m |-> "StopPod", a |-> p],
                        [m |-> "StartPod", a |-> p] >>
            calls == req[r].calls
        IN  /\ Len(calls) \in 1..3
            /\ calls = SubSeq(cycle, 1, Len(calls))
            /\ \A i \in 1..Len(calls) : calls[i].m # "StartContainer"
            /\ (req[r].pc = "done" /\ req[r].perr = "") => calls = cycle

\* a StartContainer that went through: the provider was called three times
StartContainerRestartedPod ==
    \E r \in DOMAIN req :
      /\ Done(r, "StartContainer") /\ req[r].err = ""
      /\ Len(req[r].calls) = 3
      /\ pods[containers[In(req[r])].pod].phase = "running"

\* C2: when CreatePod succeeded and StartPod failed, CreatePodSandbox
\* returns StartPod's error and no id, has called neither StopPod nor
\* RemovePod, and the pod it created is still in the provider.
CreatePodSandboxNoRollback ==
    \A r \in DOMAIN req :
      (Done(r, "CreatePodSandbox") /\ Len(req[r].calls) = 2
         /\ req[r].perr # "") =>
        LET id == req[r].calls[2].a
        IN  /\ req[r].err = req[r].perr
            /\ req[r].ret = None
            /\ req[r].calls[1].m = "CreatePod"
            /\ req[r].calls[2].m = "StartPod"
            /\ PodExists(id)
            /\ pods[id].name = In(req[r]).Name
            /\ pods[id].phase = "pending"

\* a CreatePodSandbox whose StartPod failed
CreatePodSandboxStartFailed ==
    \E r \in DOMAIN req :
      /\ Done(r, "CreatePodSandbox") /\ Len(req[r].calls) = 2
      /\ req[r].err = "timeout"
      /\ \E id \in PodIds : pods[id].name = In(req[r]).Name

\* C3: StopContainer returns no error, whatever the container id, the
\* timeout and the provider's state are.
StopContainerSucceeds ==
    \A r \in DOMAIN req :
      Done(r, "StopContainer") =>
        req[r].err = "" /\ req[r].ret = Some(EmptyResponse)

\* a StopContainer of a container that had stopped before
StopContainerOfStopped ==
    \E r \in DOMAIN req :
      /\ Done(r, "StopContainer") /\ req[r].err = ""
      /\ containers[In(req[r]).ContainerId].phase = "failed"

ProviderErrorEndsRequest ==
    /\ \A r \in DOMAIN req :
         req[r].perr # "" =>
           /\ req[r].pc = "done"
           /\ req[r].err = req[r].perr
           /\ req[r].ret = None
    /\ \A r \in DOMAIN req :
         \A i, j \in 1..Len(req[r].calls) :
           i # j => \/ req[r].calls[i].m # req[r].calls[j].m
                    \/ req[r].calls[i].a # req[r].calls[j].a

\* a StartContainer whose StopPod failed: StartPod was not called
StartContainerStopFailed ==
    \E r \in DOMAIN req :
      /\ Done(r, "StartContainer") /\ req[r].perr = "timeout"
      /\ req[r].err = "timeout"
      /\ Len(req[r].calls) = 2 /\ req[r].calls[2].m = "StopPod"

\* C6: a ListContainers one of whose GetContainerInfo calls failed returns
\* that error and no list, whatever it had looked up before; a list is
\* returned only when no call failed.
ListContainersNoPartialList ==
    \A r \in DOMAIN req :
      Done(r, "ListContainers") =>
        /\ (req[r].perr # ""
            /\ req[r].calls[Len(req[r].calls)].m = "GetContainerInfo")
             => (req[r].err = req[r].perr /\ req[r].ret = None)
        /\ req[r].ret # None => req[r].perr = ""

\* a ListContainers whose second lookup failed after a first that went well
ListContainersSecondLookupFailed ==
    \E r \in DOMAIN req :
      /\ Done(r, "ListContainers") /\ req[r].err = "timeout"
      /\ Len(req[r].calls) = 3
      /\ req[r].calls[2].m = "GetContainerInfo"
      /\ req[r].calls[3].m = "GetContainerInfo"

\* C7: CreateContainer with a privileged config answers with an error at
\* once: it calls nothing and the provider's pods, containers and images
\* are as they were, whatever the sandbox and the rest of the config.
PrivilegedRejectedBeforeCalls ==
    [][\A r \in DOMAIN req :
         (Begins(r, "CreateContainer") /\ In(req'[r]).Config.Privileged) =>
           /\ req'[r].pc = "done"
           /\ req'[r].err = ErrPrivileged
           /\ req'[r].ret = None
           /\ req'[r].calls = <<>>
           /\ UNCHANGED <<pods, containers, images>>]_vars

\* a privileged CreateContainer turned down though its sandbox is there and
\* no container has its name
PrivilegedRejected ==
    \E r \in DOMAIN req :
      /\ Done(r, "CreateContainer") /\ In(req[r]).Config.Privileged
      /\ req[r].err = ErrPrivileged
      /\ PodExists(In(req[r]).PodSandboxId)
      /\ \A c \in ContainerIds :
           containers[c].name # <<"/">> \o In(req[r]).Config.Name

\* C8 as stated: a ContainerStatus that fails on a malformed timestamp has
\* issued no provider call.
MalformedTimestampBeforeAnyCall ==
    \A r \in DOMAIN req :
      (Done(r, "ContainerStatus") /\ req[r].err = ErrParsingTime) =>
        req[r].calls = <<>>

\* C8, amended: the timestamp is part of the provider's answer, so a
\* ContainerStatus that fails on a malformed timestamp has issued exactly
\* GetContainerInfo of the container and then GetPodInfo of its pod, both
\* without error; it returns no status; no other operation fails on a
\* timestamp.
MalformedTimestampAfterBothCalls ==
    \A r \in DOMAIN req :
      req[r].err = ErrParsingTime =>
        /\ Done(r, "ContainerStatus")
        /\ req[r].calls =
             << [m |-> "GetContainerInfo", a |-> In(req[r])],
                [m |-> "GetPodInfo", a |-> containers[In(req[r])].pod] >>
        /\ req[r].perr = ""
        /\ req[r].ret = None

\* a ContainerStatus that failed on a timestamp
MalformedTimestampFailed ==
    \E r \in DOMAIN req :
      /\ Done(r, "ContainerStatus") /\ req[r].err = ErrParsingTime
      /\ Len(req[r].calls) = 2

\* the step in which ContainerStatus has the pod's info and answers
ContainerStatusAnswers(r) ==
    /\ At(r, "ContainerStatus", "GetPodInfo")
    /\ req'[r].pc = "done" /\ req'[r].perr = ""

\* the string is of the form YYYY-MM-DDThh:mm:ssZ
MatchesLayout(s) ==
    /\ Len(s) = 20
    /\ \A i \in {1, 2, 3, 4, 6, 7, 9, 10, 12, 13, 15, 16, 18, 19} :
         s[i] \in Digits
    /\ s[5] = "-" /\ s[8] = "-" /\ s[11] = "T"
    /\ s[14] = ":" /\ s[17] = ":" /\ s[20] = "Z"

\* C9 as stated: whatever the container's phase, ContainerStatus fails
\* with no status when a started-at or finished-at string of the
\* provider's answer is not empty and not of the form YYYY-MM-DDThh:mm:ssZ.
MalformedTimestampAnyPhase ==
    [][\A r \in DOMAIN req :
         ContainerStatusAnswers(r) =>
           LET st == req[r].loc.status.Status
               reported == {st.Running.StartedAt, st.Terminated.StartedAt,
                            st.Terminated.FinishedAt}
           IN  (\E s \in reported : s # <<>> /\ ~MatchesLayout(s))
                 => (req'[r].err # "" /\ req'[r].ret = None)]_vars

\* the timestamps ContainerStatus reads: those of the container's phase
TimestampsOfPhase(st) ==
    IF st.Phase = "running" THEN <<st.Running.StartedAt>>
    ELSE IF st.Phase \in {"failed", "succeeded"}
    THEN <<st.Terminated.StartedAt, st.Terminated.FinishedAt>>
    ELSE <<>>

\* the Unix time of the timestamps the provider reports: the zero time
\* (the 30th of November of the year -1) for the empty string, and
\* 2016-08-01 10:30:00 UTC
UnixOf(s) == IF s = TsEmpty THEN Unix(0 - 719560, 0) ELSE Unix(17014, 37800)

\* C9, amended: ContainerStatus reads the timestamps of the container's
\* phase only (the start of a running container, the start and the end of
\* a failed or succeeded one, none otherwise).  When time.Parse turns one
\* of them down the answer is the parse error and no status; otherwise the
\* answer is a status whose times are those of the strings, the zero time
\* for an empty one.  A fraction of a second is not of the form
\* YYYY-MM-DDThh:mm:ssZ and is accepted.
MalformedTimestampOfPhase ==
    [][\A r \in DOMAIN req :
         ContainerStatusAnswers(r) =>
           LET st == req[r].loc.status.Status
               read == TimestampsOfPhase(st)
           IN  IF \E i \in 1..Len(read) : read[i] = TsBad
               THEN req'[r].err = ErrParsingTime /\ req'[r].ret = None
               ELSE /\ req'[r].err = "" /\ req'[r].ret # None
                    /\ LET status == Get(req'[r].ret)
                       IN  /\ status.StartedAt =
                                IF Len(read) >= 1 THEN Some(UnixOf(read[1]))
                                ELSE None
                           /\ status.FinishedAt =
                                IF Len(read) = 2 THEN Some(UnixOf(read[2]))
                                ELSE None]_vars

\* a ContainerStatus of a stopped container that failed on a timestamp
MalformedTimestampOfStopped ==
    \E r \in DOMAIN req :
      /\ Done(r, "ContainerStatus") /\ req[r].err = ErrParsingTime
      /\ containers[In(req[r])].phase = "failed"

\* the pod of the provider that the filter asks for
PodSelected(filter, id) ==
    \/ filter = None
    \/ LET f == Get(filter)
       IN  /\ f.Name = None \/ Get(f.Name) = pods[id].name
           /\ f.Id = None \/ Get(f.Id) = id
           /\ f.State = None
              \/ Get(f.State) = (IF pods[id].phase = "running"
                                 THEN "READY" ELSE "NOTREADY")
           /\ f.LabelSelector = None
              \/ \A k \in DOMAIN Get(f.LabelSelector) :
                   /\ k \in DOMAIN pods[id].labels
                   /\ pods[id].labels[k] = Get(f.LabelSelector)[k]

\* the container of the provider that the filter asks for
ContainerSelected(filter, id) ==
    \/ filter = None
    \/ LET f == Get(filter)
           c == containers[id]
       IN  /\ f.Name = None \/ <<"/">> \o Get(f.Name) = c.name
           /\ f.Id = None \/ Get(f.Id) = id
           /\ f.PodSandboxId = None \/ Get(f.PodSandboxId) = c.pod
           /\ f.State = None
              \/ Get(f.State) = (CASE c.phase = "pending" -> "CREATED"
                                   [] c.phase = "running" -> "RUNNING"
                                   [] c.phase = "failed" -> "EXITED")
           /\ f.LabelSelector = None
              \/ \A k \in DOMAIN Get(f.LabelSelector) :
                   /\ k \in DOMAIN c.labels
                   /\ c.labels[k] = Get(f.LabelSelector)[k]

\* C10: a ListPodSandbox or ListContainers that succeeds returns, once
\* each, the pods or containers of the provider that every predicate of
\* the filter matches: a predicate that is not there matches every item,
\* and so does a filter that is not there.
ListingsAreFiltered ==
    \A r \in DOMAIN req :
      /\ (Done(r, "ListPodSandbox") /\ req[r].err = "") =>
           LET items == Get(req[r].ret)
               want == {id \in PodIds :
                          PodExists(id) /\ PodSelected(In(req[r]), id)}
           IN  /\ {items[i].Id : i \in 1..Len(items)} = want
               /\ Len(items) = Cardinality(want)
      /\ (Done(r, "ListContainers") /\ req[r].err = "") =>
           LET items == Get(req[r].ret)
               want == {id \in ContainerIds :
                          /\ ContainerExists(id)
                          /\ ContainerSelected(In(req[r]), id)}
           IN  /\ {items[i].Id : i \in 1..Len(items)} = want
               /\ Len(items) = Cardinality(want)

\* a ListContainers by state that returns some of the containers, not all
ListContainersSomeByState ==
    \E r \in DOMAIN req :
      /\ Done(r, "ListContainers") /\ req[r].err = ""
      /\ IsSet(In(req[r])) /\ IsSet(Get(In(req[r])).State)
      /\ Len(Get(req[r].ret)) >= 1
      /\ Len(Get(req[r].ret)) <
           Cardinality({c \in ContainerIds : ContainerExists(c)})

\* C11: inMap(S, L) is true iff every key of S is a key of L with the same
\* value; so an empty S is in every L, and an L that has S keeps it when
\* keys that S does not have are added to it.
InMapIsContainment ==
    \A r \in DOMAIN req :
      Done(r, "inMap") =>
        LET S == In(req[r]).in
            L == In(req[r]).dest
            match == Get(req[r].ret)
        IN  /\ match <=> (\A k \in DOMAIN S : k \in DOMAIN L /\ L[k] = S[k])
            /\ S = EmptyMap => match
            /\ \A M \in LabelMaps :
                 (/\ DOMAIN M \subseteq DOMAIN L
                  /\ \A k \in DOMAIN M : M[k] = L[k]
                  /\ (DOMAIN L \ DOMAIN M) \cap DOMAIN S = {}
                  /\ inMap(S, M)) => match

\* a selector of one key found in a map of two
InMapOfLarger ==
    \E r \in DOMAIN req :
      /\ Done(r, "inMap") /\ Get(req[r].ret)
      /\ Cardinality(DOMAIN In(req[r]).in) = 1
      /\ Cardinality(DOMAIN In(req[r]).dest) = 2

\* C12: the two mappings answer for every phase.  The sandbox is READY
\* for "running" and "Running" and NOTREADY for every other string; the
\* container is RUNNING for "running", CREATED for "pending", EXITED for
\* "failed" and "succeeded" and UNKNOWN for every other string, "Running"
\* and the empty string among them.
StatusMappingIsTheTable ==
    \A r \in DOMAIN req :
      /\ Done(r, "toPodSandboxState") =>
           /\ req[r].err = ""
           /\ Get(req[r].ret) \in {"READY", "NOTREADY"}
           /\ Get(req[r].ret) = "READY"
                <=> (In(req[r]) = "running" \/ In(req[r]) = "Running")
      /\ Done(r, "toKubeContainerState") =>
           LET phase == In(req[r])
               state == Get(req[r].ret)
           IN  /\ req[r].err = ""
               /\ phase = "running" => state = "RUNNING"
               /\ phase = "pending" => state = "CREATED"
               /\ phase = "failed" => state = "EXITED"
               /\ phase = "succeeded" => state = "EXITED"
               /\ phase \notin {"running", "pending", "failed", "succeeded"}
                    => state = "UNKNOWN"

\* the container state of the phase "Running", which is a sandbox's alone
StatusMappingOfRunningCapital ==
    \E r \in DOMAIN req :
      /\ Done(r, "toKubeContainerState") /\ In(req[r]) = "Running"
      /\ Get(req[r].ret) = "UNKNOWN"


\* the resources a CreatePodSandbox request asked for, as a place in
\* ResourceSamples
SampleOf(rq) ==
    CHOOSE i \in 1..Len(ResourceSamples) : ResourceSamples[i] = In(rq).Resources

\* the resource request of the provider call a CreatePodSandbox request made
ResourceSent(rq) == rq.calls[1].a.Resource

\* floor(limit + 0.5), 1 for 0 and for a limit that is unset or not above 0,
\* of each of ResourceSamples
RoundedLimits ==
    << GoInt(1), GoInt(1), GoInt(1), GoInt(3), GoInt(1), GoInt(1), GoInt(3),
       [hi |-> 1, lo |-> 0], [hi |-> 32768, lo |-> 0], [hi |-> 65536, lo |-> 0] >>

\* the limit in bytes divided by 1024 and by 1024, 128 for a limit that is
\* unset or not above 0, of each of ResourceSamples
LimitsInMegabytes ==
    << GoInt(128), GoInt(128), GoInt(300), GoInt(300), GoInt(128), GoInt(128),
       GoInt(0), GoInt(1), [hi |-> 32768, lo |-> 0], [hi |-> 65536, lo |-> 5] >>

\* C13: the vCPU count CreatePodSandbox sends to the provider is 1 when the
\* CPU limit is unset or not above 0, and otherwise the limit rounded half
\* up, with 1 in the place of 0.
VcpuIsRoundedLimit ==
    \A r \in DOMAIN req :
        (req[r].op = "CreatePodSandbox" /\ Len(req[r].calls) >= 1) =>
            /\ ResourceSent(req[r]).Vcpu >= 0
            /\ GoInt(ResourceSent(req[r]).Vcpu) = RoundedLimits[SampleOf(req[r])]

\* C14: the memory size CreatePodSandbox sends to the provider is 128 when
\* the memory limit is unset or not above 0, and otherwise the limit in
\* bytes divided by 1024 and again by 1024, truncating.
MemoryIsLimitInMegabytes ==
    \A r \in DOMAIN req :
        (req[r].op = "CreatePodSandbox" /\ Len(req[r].calls) >= 1) =>
            /\ ResourceSent(req[r]).Memory >= 0
            /\ GoInt(ResourceSent(req[r]).Memory)
                   = LimitsInMegabytes[SampleOf(req[r])]

\* C15: every resource request CreatePodSandbox sends to the provider has at
\* least one vCPU and at least one megabyte, after the conversion to 32 bits.
ResourceRequestAtLeastOne ==
    \A r \in DOMAIN req :
        (req[r].op = "CreatePodSandbox" /\ Len(req[r].calls) >= 1) =>
            /\ ResourceSent(req[r]).Vcpu >= 1
            /\ ResourceSent(req[r]).Memory >= 1


\* the labels m are the request's labels overwritten by its annotations
LabelsOverwritten(m, config) ==
    LET labels == IF IsSet(config.Labels) THEN Get(config.Labels) ELSE EmptyMap
    IN  /\ DOMAIN m = DOMAIN labels \cup DOMAIN config.Annotations
        /\ \A k \in DOMAIN config.Annotations : m[k] = config.Annotations[k]
        /\ \A k \in DOMAIN labels \ DOMAIN config.Annotations : m[k] = labels[k]

\* C16: the label map CreatePodSandbox and CreateContainer send to the
\* provider has the keys of the request's labels and of its annotations; a
\* key of the annotations has the annotation's value, and a key of the
\* labels alone has the label's value.
AnnotationsOverwriteLabels ==
    \A r \in DOMAIN req :
        /\ (req[r].op = "CreatePodSandbox" /\ Len(req[r].calls) >= 1) =>
               LabelsOverwritten(req[r].calls[1].a.Labels, In(req[r]))
        /\ (req[r].op = "CreateContainer" /\ Len(req[r].calls) >= 1) =>
               LabelsOverwritten(req[r].calls[1].a[2].Labels, In(req[r]).Config)

\* C16 happens: a pod and a container were asked for with a label and an
\* annotation of the same key, and with labels that are nil
SentCollidingLabels ==
    /\ \E r \in DOMAIN req :
          /\ req[r].op = "CreateContainer" /\ Len(req[r].calls) >= 1
          /\ IsSet(In(req[r]).Config.Labels)
          /\ "env" \in DOMAIN Get(In(req[r]).Config.Labels)
                        \cap DOMAIN In(req[r]).Config.Annotations
          /\ req[r].calls[1].a[2].Labels["env"] = "prod"
          /\ req[r].calls[1].a[2].Labels["app"] = "web"
    /\ \E id \in PodIds : /\ pods[id].phase # "absent"
                           /\ "env" \in DOMAIN pods[id].labels
                           /\ pods[id].labels["env"] = "prod"
    /\ \E id \in PodIds : pods[id].phase # "absent" /\ pods[id].labels = Map1("tier", "be")


\* the string s has the character c
Has(s, c) == \E i \in DOMAIN s : s[i] = c

\* C17: of a reference without "@", parseRepositoryTag returns the
\* reference and "latest" when it has no ":" or when the text after its
\* last ":" has a "/", and otherwise the text before the last ":" and the
\* text after it.
TagAfterLastColon ==
    \A r \in DOMAIN req :
      (Done(r, "parseRepositoryTag") /\ ~Has(In(req[r]), "@")) =>
        LET ref == In(req[r])
            out == Get(req[r].ret)
        IN  /\ ~Has(ref, ":") => out = <<ref, Latest>>
            /\ \A i \in DOMAIN ref :
                 LET name == SubSeq(ref, 1, i - 1)
                     tag  == SubSeq(ref, i + 1, Len(ref))
                 IN  (ref[i] = ":" /\ ~Has(tag, ":")) =>
                        out = IF Has(tag, "/") THEN <<ref, Latest>>
                              ELSE <<name, tag>>

\* C17 happens: a port and no tag ("a:a/a"), and a tag after a port
\* (":/:a")
TagOfReferenceWithPort ==
    \E r \in DOMAIN req :
      /\ Done(r, "parseRepositoryTag")
      /\ \/ In(req[r]) = <<"a", ":", "a", "/", "a">> /\ Get(req[r].ret)[2] = Latest
         \/ In(req[r]) = <<":", "/", ":", "a">> /\ Get(req[r].ret)[2] = <<"a">>

\* C18: of a reference with "@", parseRepositoryTag returns the text before
\* the first "@" and the text between the first "@" and the second, or the
\* end of the reference; what comes after a second "@" is dropped, and a
\* ":" or a "/" in either part changes nothing.
DigestBetweenFirstTwoAts ==
    \A r \in DOMAIN req :
      (Done(r, "parseRepositoryTag") /\ Has(In(req[r]), "@")) =>
        LET ref   == In(req[r])
            out   == Get(req[r].ret)
            taken == out[1] \o <<"@">> \o out[2]
        IN  /\ ~Has(out[1], "@") /\ ~Has(out[2], "@")
            /\ Len(taken) <= Len(ref)
            /\ SubSeq(ref, 1, Len(taken)) = taken
            /\ Len(taken) < Len(ref) => ref[Len(taken) + 1] = "@"

\* C18 happens: a second "@" with text after it, and a digest with ":"
DigestOfReferenceWithTwoAts ==
    \E r \in DOMAIN req :
      /\ Done(r, "parseRepositoryTag")
      /\ \/ In(req[r]) = <<"a", "@", ":", "@", "/">>
            /\ Get(req[r].ret) = <<<<"a">>, <<":">>>>
         \/ In(req[r]) = <<"/", "@", "a", ":", "a">>
            /\ Get(req[r].ret) = <<<<"/">>, <<"a", ":", "a">>>>


\* C19: the auth config PullImage passes to the provider's pull is never
\* absent: it is the empty config when the request has no auth, and
\* otherwise each of its fields is the request's field if that is set and
\* empty if it is not.
AuthConfigIsNeverAbsent ==
    \A r \in DOMAIN req :
      (req[r].op = "PullImage" /\ Len(req[r].calls) >= 1) =>
        LET auth == In(req[r]).Auth
            sent == req[r].calls[1].a[3]
        IN  /\ IsSet(sent)
            /\ \A f \in AuthFields :
                 Get(sent)[f] = IF IsSet(auth) /\ IsSet(Get(auth)[f])
                                THEN Get(Get(auth)[f]) ELSE ""


\* C20: Exec and ImageStatus fail with "Not implemented" whatever they are
\* asked and whatever the provider holds: they return no value and issue no
\* provider call.
NotImplementedAlways ==
    \A r \in DOMAIN req :
      req[r].op \in {"Exec", "ImageStatus"} =>
        /\ req[r].pc = "done"
        /\ req[r].err = ErrNotImplemented
        /\ ~IsSet(req[r].ret)
        /\ req[r].calls = <<>>

\* C20 happens: Exec was asked of a running container while the provider
\* holds an image
ExecOfRunningContainer ==
    \E r \in DOMAIN req :
      /\ Done(r, "Exec")
      /\ containers[In(req[r]).ContainerId].phase = "running"
      /\ Len(images) >= 1


\* C21: the two surfaces do the same.  Where their code differs, in Version
\* and in PullImage, a request that came in by one surface has issued the
\* call, with the arguments, that the other surface issues for it, and
\* Version answers with the same runtime name, version and API version by
\* either surface.
SurfacesAgree ==
    \A r \in DOMAIN req :
      /\ (req[r].op = "PullImage" /\ Len(req[r].calls) >= 1) =>
            \A surface \in Surfaces :
              req[r].calls[1].a =
                 <<parseRepositoryTag(In(req[r]).Image)[1],
                   parseRepositoryTag(In(req[r]).Image)[2],
                   getHyperAuthConfig(surface, In(req[r]).Auth)>>
      /\ (Done(r, "Version") /\ req[r].err = "") =>
            LET ret == Get(req[r].ret)
                answer == IF In(req[r]) = "manager"
                          THEN <<ret.RuntimeName, ret.RuntimeVersion,
                                 ret.RuntimeApiVersion>>
                          ELSE ret
            IN  /\ req[r].calls = <<[m |-> "Version", a |-> <<>>]>>
                /\ answer[1] = hyperRuntimeName
                /\ \E out \in ProviderVersion :
                      /\ out.err = ""
                      /\ answer[2] = out.val.Version
                      /\ answer[3] = out.val.ApiVersion


\* what the provider holds of pod id, as a sandbox
SandboxOf(id) ==
    [Id |-> id, Name |-> pods[id].name, Labels |-> pods[id].labels,
     State |-> IF pods[id].phase = "running" THEN "READY" ELSE "NOTREADY",
     CreatedAt |-> id]

\* what the provider holds of container id, as a listed container
ContainerOf(id) ==
    [Id |-> id, Name |-> Tail(containers[id].name),
     Image |-> containers[id].image, ImageRef |-> containers[id].image,
     Labels |-> containers[id].labels,
     State |-> CASE containers[id].phase = "pending" -> "CREATED"
                 [] containers[id].phase = "running" -> "RUNNING"
                 [] containers[id].phase = "failed" -> "EXITED"]

\* the answer that the provider's pods, containers and images, as they are
\* now, make of the query op of request in: a function of these alone, but
\* for the timestamps of ContainerStatus, which the provider writes into its
\* reply
AnswersOfProvider(op, in) ==
    CASE op = "PodSandboxStatus" ->
           { [Id |-> in, Name |-> pods[in].name,
              State |-> SandboxOf(in).State,
              Network |-> [Ip |-> IF pods[in].phase = "running"
                                  THEN "10.0.0.1" ELSE ""],
              CreatedAt |-> in, Labels |-> pods[in].labels] }
      [] op = "ListPodSandbox" ->
           LET ids == Sorted({id \in PodIds :
                                PodExists(id) /\ PodSelected(in, id)})
           IN  { [i \in 1..Len(ids) |-> SandboxOf(ids[i])] }
      [] op = "ListContainers" ->
           LET ids == Sorted({id \in ContainerIds :
                                ContainerExists(id) /\ ContainerSelected(in, id)})
           IN  { [i \in 1..Len(ids) |-> ContainerOf(ids[i])] }
      [] op = "ContainerStatus" ->
           { Get(KubeContainerStatus(Idle, ContainerInfoOf(in, started, finished),
                                     PodInfoOf(containers[in].pod)).ret) :
               started \in {TsEmpty, TsGood, TsFrac},
               finished \in {TsEmpty, TsGood, TsFrac} }
      [] op = "ListImages" ->
           LET name == IF in = None THEN <<>> ELSE Get(in).Image
               f    == IF \E i \in DOMAIN name : name[i] = ":" THEN name
                       ELSE name \o <<":">> \o Latest
               kept == SelectSeq(images, LAMBDA x : in = None \/ x = f)
           IN  { [i \in 1..Len(kept) |->
                    [Id |-> kept[i], RepoTags |-> <<kept[i]>>,
                     RepoDigests |-> <<>>, Size |-> 1]] }

Queries ==
    {"PodSandboxStatus", "ListPodSandbox", "ListContainers", "ContainerStatus",
     "ListImages"}

\* C22: the adapter keeps nothing: what a query answers is made of the
\* request and of what the provider holds during the call, whatever
\* requests came before it.
QueriesAnswerFromProvider ==
    \A r \in DOMAIN req :
      (req[r].op \in Queries /\ req[r].pc = "done" /\ req[r].err = "") =>
         Get(req[r].ret) \in AnswersOfProvider(req[r].op, In(req[r]))

\* C22 happens: a pod that was created, started and then stopped is asked
\* for, and answered as the provider holds it now
PodSandboxStatusOfStopped ==
    \E r \in DOMAIN req :
      /\ Done(r, "PodSandboxStatus") /\ req[r].err = ""
      /\ pods[In(req[r])].phase = "failed"
      /\ Get(req[r].ret).State = "NOTREADY"


\* C23: the status that ContainerStatus returns has its fields set by the
\* provider's phase alone: startedAt for "running", "failed" and
\* "succeeded"; finishedAt and exitCode for "failed" and "succeeded"; the
\* reason is the termination reason for "failed" and "succeeded", is not set
\* for "running" and is the waiting reason for every other phase.
StatusFieldsByPhase ==
    \A r \in DOMAIN req :
      (Done(r, "KubeContainerStatus") /\ req[r].err = "") =>
        LET status == In(req[r]).status.Status
            phase  == status.Phase
            kube   == Get(req[r].ret)
            exited == phase = "failed" \/ phase = "succeeded"
        IN  /\ IsSet(kube.StartedAt) <=> (phase = "running" \/ exited)
            /\ IsSet(kube.FinishedAt) <=> exited
            /\ IsSet(kube.ExitCode) <=> exited
            /\ kube.Reason = IF exited THEN Some(status.Terminated.Reason)
                             ELSE IF phase = "running" THEN None
                             ELSE Some(status.Waiting.Reason)

\* C23 happens: the status of a container that succeeded, and of one whose
\* phase is "Running", which is not "running"
StatusOfSucceeded ==
    \E r \in DOMAIN req :
      /\ Done(r, "KubeContainerStatus") /\ req[r].err = ""
      /\ \/ /\ In(req[r]).status.Status.Phase = "succeeded"
            /\ IsSet(Get(req[r].ret).ExitCode)
         \/ /\ In(req[r]).status.Status.Phase = "Running"
            /\ Get(req[r].ret).Reason = Some("waiting")


\* C24: a StartContainer whose StopPod succeeded and whose StartPod failed
\* returns the error of StartPod and has issued no call after it; the pod
\* is stopped, and none of its containers runs.
StartContainerLeavesPodStopped ==
    \A r \in DOMAIN req :
      (Done(r, "StartContainer") /\ Len(req[r].calls) = 3
         /\ req[r].perr # "") =>
        LET p == req[r].calls[3].a
        IN  /\ req[r].calls[2] = [m |-> "StopPod", a |-> p]
            /\ req[r].calls[3].m = "StartPod"
            /\ req[r].err = req[r].perr
            /\ req[r].ret = None
            /\ pods[p].phase = "failed"
            /\ \A c \in ContainerIds :
                 containers[c].pod = p => containers[c].phase # "running"

\* C24 happens: StartPod failed, and another container of the pod, which
\* ran, is stopped
StartContainerStartFailed ==
    \E r \in DOMAIN req :
      /\ Done(r, "StartContainer") /\ Len(req[r].calls) = 3
      /\ req[r].err = "timeout"
      /\ \E c \in ContainerIds \ {In(req[r])} :
            /\ containers[c].pod = req[r].calls[3].a
            /\ containers[c].phase = "failed"


\* C25: requests run side by side.  Each StartContainer still issues its
\* own calls in the order info, stop, start, on the pod the info named,
\* whatever the other request does in between; and a StartContainer that
\* comes to its StartPod when the pod is gone issues it all the same and
\* returns its error.
ConcurrentStartContainer ==
    [][\A r \in DOMAIN req :
         /\ req'[r].op = "StartContainer" =>
               LET calls == req'[r].calls
               IN  /\ Len(calls) \in 1..3
                   /\ calls[1] = [m |-> "GetContainerInfo", a |-> In(req'[r])]
                   /\ Len(calls) >= 2 => calls[2].m = "StopPod"
                   /\ Len(calls) = 3 =>
                         calls[3] = [m |-> "StartPod", a |-> calls[2].a]
                   /\ (req'[r].pc = "done" /\ req'[r].err = "") =>
                         Len(calls) = 3
         /\ (/\ At(r, "StartContainer", "StartPod")
             /\ req'[r] # req[r]
             /\ ~PodExists(req[r].loc.podID)) =>
               /\ req'[r].pc = "done"
               /\ Len(req'[r].calls) = 3
               /\ req'[r].err \in {"not found", "timeout"}
               /\ req'[r].ret = None]_vars

\* C25 happens: between the StopPod and the StartPod of a StartContainer,
\* the DeletePodSandbox of another request removed the pod, and StartPod
\* did not find it
StartContainerOfRemovedPod ==
    \E r, d \in DOMAIN req :
      /\ Done(r, "StartContainer") /\ Len(req[r].calls) = 3
      /\ req[r].err = "not found"
      /\ Done(d, "DeletePodSandbox") /\ req[d].err = ""
      /\ In(req[d]) = req[r].calls[3].a


\* the container of the provider that the filter's name, id and sandbox id
\* let through; the provider's name has a "/" in front
ContainerPreselected(filter, id) ==
    \/ filter = None
    \/ LET f == Get(filter)
       IN  /\ f.Name = None \/ Get(f.Name) = Tail(containers[id].name)
           /\ f.Id = None \/ Get(f.Id) = id
           /\ f.PodSandboxId = None \/ Get(f.PodSandboxId) = containers[id].pod

\* C26: after its listing call, ListContainers asks for the info of the
\* containers that the filter's name, id and sandbox id let through, one
\* after the other in the order of the listing, and of no other container;
\* when it succeeds it has asked for all of them, and what it returns is in
\* the order of the listing.
ListContainersLooksUpPreselected ==
    \A r \in DOMAIN req :
      (req[r].op = "ListContainers"
         /\ ~(Len(req[r].calls) = 1 /\ req[r].perr # "")) =>
        LET calls  == req[r].calls
            wanted == Sorted({id \in ContainerIds :
                                /\ ContainerExists(id)
                                /\ ContainerPreselected(In(req[r]), id)})
        IN  /\ calls[1].m = "GetContainerList"
            /\ Len(calls) - 1 <= Len(wanted)
            /\ \A i \in 2..Len(calls) :
                 calls[i] = [m |-> "GetContainerInfo", a |-> wanted[i - 1]]
            /\ req[r].pc # "done" => Len(calls) - 1 < Len(wanted)
            /\ (req[r].pc = "done" /\ req[r].err = "") =>
                 LET items == Get(req[r].ret)
                 IN  /\ Len(calls) - 1 = Len(wanted)
                     /\ \A i \in 1..Len(items) :
                          \E j \in 1..Len(wanted) : items[i].Id = wanted[j]
                     /\ \A i, j \in 1..Len(items) :
                          i < j => items[i].Id < items[j].Id

\* C26 happens: of two containers the filter's id lets one through, and it
\* alone was looked up
ListContainersLookedUpOne ==
    \E r \in DOMAIN req :
      /\ Done(r, "ListContainers") /\ req[r].err = ""
      /\ \A c \in ContainerIds : ContainerExists(c)
      /\ IsSet(In(req[r])) /\ Get(In(req[r])).Id = Some(2)
      /\ req[r].calls = << [m |-> "GetContainerList", a |-> FALSE],
                           [m |-> "GetContainerInfo", a |-> 2] >>
      /\ Len(Get(req[r].ret)) = 1


\* C27: ListImages with a filter returns, in the provider's order, the
\* images one of whose repoTags is f, the filter's name when the name has a
\* ":" and the name with ":latest" after it when it has none: a name with a
\* registry port and no tag is looked for as it is.  Without a filter every
\* image is returned.
ListImagesByRepoTag ==
    \A r \in DOMAIN req :
      Done(r, "ImageResults") =>
        LET filter == In(req[r]).filter
            name   == IF filter = None THEN <<>> ELSE Get(filter).Image
            f      == IF \E i \in DOMAIN name : name[i] = ":" THEN name
                      ELSE name \o <<":", "l", "a", "t", "e", "s", "t">>
            kept   == SelectSeq(In(req[r]).images,
                                LAMBDA img : \/ filter = None
                                             \/ \E k \in DOMAIN img.RepoTags :
                                                  img.RepoTags[k] = f)
            items  == Get(req[r].ret)
        IN  /\ Len(items) = Len(kept)
            /\ \A i \in 1..Len(items) :
                 /\ items[i].Id = kept[i].Id
                 /\ items[i].RepoTags = kept[i].RepoTags
                 /\ items[i].RepoDigests = kept[i].RepoDigests
                 /\ items[i].Size = kept[i].VirtualSize

\* C27 happens: asked for "h:5/a", the image of that tag is returned and
\* the image tagged "h:5/a:latest" is not
ListImagesOfPortName ==
    \E r \in DOMAIN req :
      /\ Done(r, "ImageResults")
      /\ In(req[r]).filter = Some([Image |-> <<"h", ":", "5", "/", "a">>])
      /\ Len(In(req[r]).images) = 2
      /\ In(req[r]).images[1].RepoTags
            = << <<"h", ":", "5", "/", "a", ":", "l", "a", "t", "e", "s", "t">> >>
      /\ Len(Get(req[r].ret)) = 1
      /\ Get(req[r].ret)[1].RepoTags = << <<"h", ":", "5", "/", "a">> >>

=============================================================================
